---- MODULE Spec2Model ----
(***************************************************************************)
(* Eido backend: the MVP state machine (app/models/mvp.py), the pipeline   *)
(* orchestrator and stage executor (app/services/pipeline.py), the startup *)
(* recovery scan and the service-layer transition (mvp_service.py).        *)
(*                                                                         *)
(* The database is the pair (mvp, agent_runs); it survives a process       *)
(* crash.  A pipeline run is an asyncio task; `run[u]` holds its locals    *)
(* and its position, and is lost when the process dies.  Time is the       *)
(* value datetime.utcnow() returns, in seconds.                            *)
(***************************************************************************)
EXTENDS Integers, Sequences, FiniteSets, TLC

(* ------------------------------ bounds --------------------------------- *)
\* number of MVP rows the start endpoint may create
MaxUnits == 1
\* number of times the clock advances
MaxTicks == 2
\* number of rows in the database the recovery scan is run against
ScanUnits == 3
\* number of pipelines whose stages run side by side in one process
MaxPipelines == 2
\* number of stages each of them runs through the crew service
MaxCrewStages == 2
\* number of LLM completions litellm reports during one crew execution
MaxCalls == 2
\* number of execute_llm_call calls made on one router
MaxRouterCalls == 2
\* number of alert tasks that can be waiting when a caller outside the
\* application re-triggers a unit
MaxPendingAlerts == 2
\* the time the rate limiter is observed for, in ticks of half a second
MaxLimiterTime == 4
\* the number of requests the middleware is observed to serve
MaxRequests == 4

(* ------------------------- program constants --------------------------- *)
MAX_AGENT_RETRIES == 3
\* settings.MAX_LLM_RETRIES, the default of the environment
MAX_LLM_RETRIES == 3
\* stop_after_attempt(3) on LLMRouter._raw_llm_call
RAW_CALL_ATTEMPTS == 3
MAX_TOTAL_RUNTIME == 3600
DefaultMaxAllowedCost == 10
\* settings.ALERT_COST_THRESHOLD as the environment sets it, above the
\* ceiling of a unit and within what a run can spend
ALERT_COST_THRESHOLD == 11

NULL == -1

(* ------------------------- MVPState, mvp.py ---------------------------- *)
MVPState ==
  {"CREATED", "IDEATING", "ARCHITECTING", "BUILDING", "BUILD_FAILED",
   "DEPLOYING", "DEPLOY_FAILED", "TOKENIZING", "COMPLETED", "FAILED"}

\* mutant: BUILDING may go straight to FAILED
VALID_TRANSITIONS_building_to_failed ==
  [s \in MVPState |->
     CASE s = "CREATED"       -> {"IDEATING"}
       [] s = "IDEATING"      -> {"ARCHITECTING", "FAILED"}
       [] s = "ARCHITECTING"  -> {"BUILDING", "FAILED"}
       [] s = "BUILDING"      -> {"DEPLOYING", "BUILD_FAILED", "FAILED"}
       [] s = "BUILD_FAILED"  -> {"BUILDING", "FAILED"}
       [] s = "DEPLOYING"     -> {"TOKENIZING", "DEPLOY_FAILED"}
       [] s = "DEPLOY_FAILED" -> {"DEPLOYING", "FAILED"}
       [] s = "TOKENIZING"    -> {"COMPLETED", "FAILED"}
       [] s = "COMPLETED"     -> {}
       [] s = "FAILED"        -> {}]

VALID_TRANSITIONS ==
  [s \in MVPState |->
     CASE s = "CREATED"       -> {"IDEATING"}
       [] s = "IDEATING"      -> {"ARCHITECTING", "FAILED"}
       [] s = "ARCHITECTING"  -> {"BUILDING", "FAILED"}
       [] s = "BUILDING"      -> {"DEPLOYING", "BUILD_FAILED"}
       [] s = "BUILD_FAILED"  -> {"BUILDING", "FAILED"}
       [] s = "DEPLOYING"     -> {"TOKENIZING", "DEPLOY_FAILED"}
       [] s = "DEPLOY_FAILED" -> {"DEPLOYING", "FAILED"}
       [] s = "TOKENIZING"    -> {"COMPLETED", "FAILED"}
       [] s = "COMPLETED"     -> {}
       [] s = "FAILED"        -> {}]

TERMINAL_STATES == {"COMPLETED", "FAILED"}

NON_TERMINAL_STATES ==
  {"CREATED", "IDEATING", "ARCHITECTING", "BUILDING", "BUILD_FAILED",
   "DEPLOYING", "DEPLOY_FAILED", "TOKENIZING"}

\* mutant: a failed unit may be restarted (FAILED -> IDEATING accepted)
is_valid_transition_reopen(from_state, to_state) ==
  \/ /\ from_state \in DOMAIN VALID_TRANSITIONS
     /\ to_state \in VALID_TRANSITIONS[from_state]
  \/ (from_state = "FAILED" /\ to_state = "IDEATING")

\* VALID_TRANSITIONS.get(from_state, []) : a missing key gives no edge
is_valid_transition(from_state, to_state) ==
  /\ from_state \in DOMAIN VALID_TRANSITIONS
  /\ to_state \in VALID_TRANSITIONS[from_state]

is_terminal_state(state) == state \in TERMINAL_STATES

is_non_terminal_state(state) == state \in NON_TERMINAL_STATES

get_valid_next_states(current_state) ==
  IF current_state \in DOMAIN VALID_TRANSITIONS
    THEN VALID_TRANSITIONS[current_state] ELSE {}

(* --------------------- the stage sequence of run() --------------------- *)
\* the five _execute_*_stage wrappers, in the order run() calls them
STAGES ==
  << [name |-> "ideation",     target |-> "IDEATING",     failure |-> "NONE"],
     [name |-> "architecture", target |-> "ARCHITECTING", failure |-> "NONE"],
     [name |-> "building",     target |-> "BUILDING",     failure |-> "BUILD_FAILED"],
     [name |-> "deployment",   target |-> "DEPLOYING",    failure |-> "DEPLOY_FAILED"],
     [name |-> "tokenization", target |-> "TOKENIZING",   failure |-> "NONE"] >>

NumStages == Len(STAGES)

\* AIRuntimeFacade.execute_stage: stages that open an E2B sandbox, whose
\* close() in the finally block is the one place the facade can raise
requires_sandbox(stage_name) ==
  stage_name \in {"architecture", "building", "deployment"}

\* mutant: a result may carry a negative usage
StageUsage_negative == { <<1, 1>>, <<0 - 1, 0 - 1>> }

\* (token_usage, cost_estimate) a successful stage result may carry
StageUsage == { <<1, 1>>, <<3, 10>> }

\* steps by which the clock advances
TickSteps == {1, MAX_TOTAL_RUNTIME}

Units == 1..MaxUnits

VARIABLES
  mvp,                 \* table mvp: id -> row
  agent_runs,          \* table agent_run, per mvp_id, in insertion order
  run,                 \* per unit, the pipeline task in flight (or none)
  run_result,          \* per unit, how its last finished run() exited
  mvp_pipeline_active, \* the gauge of active pipelines
  up,                  \* the process is running
  now,                 \* datetime.utcnow()
  ticks,               \* number of clock advances so far
  transition_call,     \* the last MVPService.transition_state call
  before,              \* history: the state the last step was taken from
  GLOBAL_TOTAL_TOKENS, \* llm_router._GLOBAL_TOTAL_TOKENS
  GLOBAL_TOTAL_COST,   \* llm_router._GLOBAL_TOTAL_COST, in 1e-5 USD
  crew,                \* per pipeline, its facade's stage execution
  router,              \* an LLMRouter instance and its execute_llm_call
  estimate,            \* a call of LLMRouter.estimate_cost
  alert_tasks,         \* the cost-alert tasks created and not awaited
  limiter,             \* the rate limiter of the middleware
  build                \* a call of execute_crew for the building stage

vars == <<mvp, agent_runs, run, run_result, mvp_pipeline_active, up, now,
          ticks, transition_call, before, GLOBAL_TOTAL_TOKENS,
          GLOBAL_TOTAL_COST, crew, router, estimate, alert_tasks,
          limiter, build>>

\* the state of the LLM usage accounting
usage_vars ==
  <<GLOBAL_TOTAL_TOKENS, GLOBAL_TOTAL_COST, crew, router, estimate>>

\* the state of the pipeline and of the database
pipeline_vars == <<mvp, agent_runs, run, run_result, mvp_pipeline_active, up,
                   now, ticks, transition_call>>

Pipelines == 1..MaxPipelines

\* a facade that has run no stage yet: its LLMRouter's local totals, the
\* unit's totals, the last StageResult; own_tokens / own_cost keep the
\* usage of the completions made for this pipeline, stage_tokens /
\* stage_cost that of the completions of its latest stage, and
\* incurred_tokens / incurred_cost the sum over its successful stages of
\* the stage's usage, each cost rounded as a result carries it (history)
NoCrew ==
  [pc |-> "idle", stage |-> 0, calls |-> 0,
   total_tokens_used |-> 0, total_cost |-> 0,
   total_token_usage |-> 0, total_cost_estimate |-> 0,
   result |-> [success |-> FALSE, token_usage |-> 0, cost_estimate |-> 0],
   own_tokens |-> 0, own_cost |-> 0,
   stage_tokens |-> 0, stage_cost |-> 0,
   incurred_tokens |-> 0, incurred_cost |-> 0]

\* what `before` keeps of a state
\* LLMResponse before there is one (None)
NoLLMResponse ==
  [token_usage |-> 0, cost_estimate |-> 0, raw_output |-> NULL,
   parsed_output |-> NULL]

\* LLMRouter.__init__: local totals 0; no call in progress.
\* attempts, tokens_at_call and cost_at_call are history of the current
\* call; incurred_tokens and incurred_cost add up what the provider
\* responses of all the router's calls used.
NoRouter ==
  [pc |-> "idle", calls |-> 0,
   total_tokens_used |-> 0, total_cost |-> 0,
   max_attempts |-> 0, response_schema |-> FALSE, attempt |-> 0,
   attempts |-> << >>, tokens_at_call |-> 0, cost_at_call |-> 0,
   incurred_tokens |-> 0, incurred_cost |-> 0,
   response |-> NoLLMResponse, exc |-> "none"]

\* no call of estimate_cost
NoEstimate ==
  [pc |-> "none", model |-> << >>, input_tokens |-> 0, output_tokens |-> 0,
   costs |-> [input |-> 0, output |-> 0], cost |-> 0]

\* the clients the middleware tells apart (get_client_identifier)
Clients == {"ip:1", "ip:2"}

\* the limiter of a process that has served no request. storage: "memory"
\* (InMemoryRateLimiter) or "redis" with redis_client None. requests:
\* InMemoryRateLimiter.requests; clock: time.time() in ticks of half a
\* second; admitted: history, the times at which each key was admitted;
\* last: the latest call of is_allowed and what it returned; served: the
\* number of requests so far
NoLimiter(storage) ==
  [storage |-> storage, served |-> 0,
   requests |-> [k \in Clients |-> << >>],
   clock |-> 0,
   admitted |-> [k \in Clients |-> << >>],
   last |-> [key |-> "none", limit |-> 0, window |-> 0, allowed |-> FALSE,
             retry_after |-> 0, at |-> 0]]

\* no call of execute_crew("building") is under way; kickoffs: what each
\* crew.kickoff of the call did, in order
NoBuild == [pc |-> "idle", current_attempt |-> 0, kickoffs |-> << >>,
            last_exit_code |-> NULL, exc |-> "none"]

\* no alert task has been created; last: how the latest one to finish ended
NoAlerts == [pending |-> 0, last |-> "none"]

Snapshot ==
  [mvp |-> mvp, agent_runs |-> agent_runs, run |-> run, now |-> now,
   transition_call |-> transition_call, alert_tasks |-> alert_tasks]

\* pc: scheduled (task created, not begun), stage (about to call
\* _execute_stage for STAGES[stage]), await (inside the collaborator call),
\* complete, except_limit, except_exception (the blocks of run())
\* result: the StageResult the collaborator handed back last ("none": no
\* call has returned in this run)
NoStageResult == [kind |-> "none", token_usage |-> 0, cost_estimate |-> 0]

\* what happened inside AIRuntimeFacade.execute_stage, before any call
NoEvents ==
  [crew |-> "none", integration |-> "none", close |-> "none",
   usage |-> <<0, 0>>]

\* tasks: the run() tasks created for the unit that have not ended
NoRun == [pc |-> "none", stage |-> 0, pipeline_start_time |-> NULL,
          exc |-> "none", origin |-> "none", retry_before |-> NULL,
          status_before |-> "none", attempts |-> 0,
          result |-> NoStageResult, events |-> NoEvents, tasks |-> 0]

\* AutonomousPipeline(mvp_id) is constructed and run() handed to the event
\* loop (background_tasks.add_task, asyncio.create_task); r: the unit's slot
Scheduled(r, origin) ==
  [NoRun EXCEPT !.pc = "scheduled", !.origin = origin, !.tasks = r.tasks + 1]

\* run() of the slot r is left
Ended(r) == [NoRun EXCEPT !.tasks = r.tasks - 1]

NoCall == [mvp_id |-> 0, from |-> "none", to |-> "none", raised |-> FALSE]

NoResult == [exc |-> "none", cause |-> "none", origin |-> "none",
             retry_before |-> NULL, status_before |-> "none",
             last_stage |-> 0]

\* MVPService.create_mvp: a fresh row with the column defaults of MVP
NewMVP(t) ==
  [status |-> "CREATED", retry_count |-> 0, total_token_usage |-> 0,
   total_cost_estimate |-> 0, max_allowed_cost |-> DefaultMaxAllowedCost,
   last_error_stage |-> "none", updated_at |-> t]

\* AutonomousPipeline._transition_state on row m at time t: the row as
\* committed, and the exception raised ("none" when it returns)
transition_state(m, new_state, t) ==
  IF ~ is_valid_transition(m.status, new_state)
    THEN [m |-> m, exc |-> "StateTransitionError"]
    ELSE [m |-> [m EXCEPT !.status = new_state, !.updated_at = t],
          exc |-> "none"]

\* mutant: the row is assigned and committed before the validation
service_transition_state_late_check(m, new_state, t) ==
  [m |-> [m EXCEPT !.status = new_state, !.updated_at = t],
   exc |-> IF is_valid_transition(m.status, new_state)
             THEN "none" ELSE "StateTransitionError"]

\* MVPService.transition_state: the same validation and assignments
service_transition_state(m, new_state, t) ==
  IF ~ is_valid_transition(m.status, new_state)
    THEN [m |-> m, exc |-> "StateTransitionError"]
    ELSE [m |-> [m EXCEPT !.status = new_state, !.updated_at = t],
          exc |-> "none"]

Init ==
  /\ mvp = << >>
  /\ agent_runs = [u \in Units |-> << >>]
  /\ run = [u \in Units |-> NoRun]
  /\ run_result = [u \in Units |-> NoResult]
  /\ mvp_pipeline_active = 0
  /\ up = TRUE
  /\ now = 0
  /\ ticks = 0
  /\ transition_call = NoCall
  /\ alert_tasks = NoAlerts
  /\ limiter = NoLimiter("memory")
  /\ build = NoBuild
  /\ before = Snapshot
  /\ GLOBAL_TOTAL_TOKENS = 0
  /\ GLOBAL_TOTAL_COST = 0
  /\ crew = [p \in Pipelines |-> NoCrew]
  /\ router = NoRouter
  /\ estimate = NoEstimate

(* ------------------------------ the clock ------------------------------ *)
\* synchronous code takes no time: the clock advances only while every
\* task is suspended (not yet begun, or inside the collaborator call)
Tick(d) ==
  /\ ticks < MaxTicks
  /\ \A u \in Units : run[u].pc \in {"none", "scheduled", "await"}
  /\ now' = now + d
  /\ ticks' = ticks + 1
  /\ UNCHANGED <<mvp, agent_runs, run, run_result, mvp_pipeline_active, up,
                 transition_call>>
  /\ before' = Snapshot
  /\ UNCHANGED <<alert_tasks, limiter, build>>
  /\ UNCHANGED usage_vars

(* --------------------- POST /start, mvp_controller --------------------- *)
\* create_mvp, then the run is scheduled as a background task
start_mvp_pipeline ==
  /\ up
  /\ Len(mvp) < MaxUnits
  /\ LET id == Len(mvp) + 1 IN
       /\ mvp' = Append(mvp, NewMVP(now))
       /\ run' = [run EXCEPT ![id] = Scheduled(run[id], "start")]
  /\ UNCHANGED <<agent_runs, run_result, mvp_pipeline_active, up, now, ticks, transition_call>>
  /\ before' = Snapshot
  /\ UNCHANGED <<alert_tasks, limiter, build>>
  /\ UNCHANGED usage_vars

(* --------------------------- run(), entry ------------------------------ *)
\* lines 71-89: start time, gauge increment, the row is loaded
RunBegin(u) ==
  /\ up
  /\ run[u].pc = "scheduled"
  /\ run' = [run EXCEPT ![u] = [@ EXCEPT !.pc = "stage", !.stage = 1,
                                  !.pipeline_start_time = now,
                                  !.retry_before = mvp[u].retry_count,
                                  !.status_before = mvp[u].status]]
  /\ run_result' = [run_result EXCEPT ![u] = NoResult]
  /\ mvp_pipeline_active' = mvp_pipeline_active + 1
  /\ UNCHANGED <<mvp, agent_runs, up, now, ticks, transition_call>>
  /\ before' = Snapshot
  /\ UNCHANGED <<alert_tasks, limiter, build>>
  /\ UNCHANGED usage_vars

(* ------------------------- guardrails, pipeline.py --------------------- *)
\* mutant: elapsed > MAX_TOTAL_RUNTIME
check_runtime_limit_strict(r, t) ==
  /\ r.pipeline_start_time # NULL
  /\ t - r.pipeline_start_time > MAX_TOTAL_RUNTIME

\* _check_runtime_limit raises iff this holds (r: the run's locals)
check_runtime_limit(r, t) ==
  /\ r.pipeline_start_time # NULL
  /\ t - r.pipeline_start_time >= MAX_TOTAL_RUNTIME

\* mutant: total > max_allowed_cost
check_cost_limit_strict(m) == m.total_cost_estimate > m.max_allowed_cost

\* _check_cost_limit raises iff this holds
check_cost_limit(m) == m.total_cost_estimate >= m.max_allowed_cost

\* mutant: attempt_number is the retry count itself
NewAgentRun_zero_based(m, stage_name, t) ==
  [stage |-> stage_name, status |-> "running",
   attempt_number |-> m.retry_count, started_at |-> t,
   completed_at |-> NULL, duration_ms |-> NULL,
   token_usage |-> 0, cost_estimate |-> 0, log |-> "none"]

\* AgentRun(...) as _execute_stage creates it
NewAgentRun(m, stage_name, t) ==
  [stage |-> stage_name, status |-> "running",
   attempt_number |-> m.retry_count + 1, started_at |-> t,
   completed_at |-> NULL, duration_ms |-> NULL,
   token_usage |-> 0, cost_estimate |-> 0, log |-> "none"]

\* int((completed_at - started_at).total_seconds() * 1000)
DurationMs(started_at, completed_at) == (completed_at - started_at) * 1000

(* ---------------- _execute_stage up to the await, 186-208 -------------- *)
\* the outcome of the synchronous prefix: the row, the attempt table, and
\* where control goes (pc) with which exception
\* mutant: the alert is awaited before the exception is raised
cost_limit_raise_awaits_alert(m, runs) ==
  IF m.total_cost_estimate >= ALERT_COST_THRESHOLD
    THEN [m |-> m, runs |-> runs, pc |-> "await_alert", exc |-> "none",
          alert |-> TRUE]
    ELSE [m |-> m, runs |-> runs, pc |-> "except_limit",
          exc |-> "CostLimitExceeded", alert |-> FALSE]

\* _check_cost_limit once the ceiling is reached, 286-301: above the alert
\* threshold asyncio.create_task(alert_cost_threshold_exceeded(...)), not
\* awaited; then raise CostLimitExceededError
cost_limit_raise(m, runs) ==
  [m |-> m, runs |-> runs, pc |-> "except_limit",
   exc |-> "CostLimitExceeded",
   alert |-> m.total_cost_estimate >= ALERT_COST_THRESHOLD]

execute_stage_entry(m, runs, r, t) ==
  LET st == STAGES[r.stage] IN
  IF check_runtime_limit(r, t)
    THEN [m |-> m, runs |-> runs, pc |-> "except_limit",
          exc |-> "RuntimeLimitExceeded", alert |-> FALSE]
  ELSE IF check_cost_limit(m)
    THEN cost_limit_raise(m, runs)
  ELSE LET tr == transition_state(m, st.target, t) IN
    IF tr.exc # "none"
      THEN [m |-> m, runs |-> runs, pc |-> "except_exception",
            exc |-> tr.exc, alert |-> FALSE]
      ELSE [m |-> tr.m, runs |-> Append(runs, NewAgentRun(tr.m, st.name, t)),
            pc |-> "await", exc |-> "none", alert |-> FALSE]

ExecuteStage(u) ==
  /\ up
  /\ run[u].pc = "stage"
  /\ LET o == execute_stage_entry(mvp[u], agent_runs[u], run[u], now) IN
       /\ mvp' = [mvp EXCEPT ![u] = o.m]
       /\ agent_runs' = [agent_runs EXCEPT ![u] = o.runs]
       /\ run' = [run EXCEPT ![u] = [@ EXCEPT !.pc = o.pc, !.exc = o.exc,
                                              !.attempts = @ + 1]]
       /\ alert_tasks' = IF o.alert
                           THEN [alert_tasks EXCEPT !.pending = @ + 1]
                           ELSE alert_tasks
  /\ UNCHANGED <<run_result, mvp_pipeline_active, up, now, ticks, transition_call>>
  /\ before' = Snapshot
  /\ UNCHANGED <<limiter, build>>
  /\ UNCHANGED usage_vars

(* ------------- _execute_stage after the await, 210-281 ----------------- *)
\* crewai_service.execute_crew, Phase 4 (587-623): the stages that call an
\* external service after the crew, and what the call does
IntegrationOutcomes(stage_name) ==
  IF stage_name \in {"ideation", "deployment", "tokenization"}
    THEN {"ok", "raise"}
    ELSE {"none"}

\* E2BSandboxManager.__exit__ (42-46): sandbox.close() of a sandbox stage
CloseOutcomes(stage_name) ==
  IF requires_sandbox(stage_name) THEN {"ok", "raise"} ELSE {"none"}

\* what can happen during one call of the facade: the crew raises
\* (StageExecutionError, 570-572) or returns with some usage; after it the
\* integration call returns or raises; last, the sandbox is closed
StageEvents(stage_name) ==
  { [crew |-> "raise", integration |-> "none", close |-> c,
     usage |-> <<0, 0>>] : c \in CloseOutcomes(stage_name) }
  \cup
  { [crew |-> "ok", integration |-> i, close |-> c, usage |-> x] :
      i \in IntegrationOutcomes(stage_name),
      c \in CloseOutcomes(stage_name), x \in StageUsage }

\* AIRuntimeFacade.execute_stage, 56-163: an exception of the crew is
\* turned into success=False with usage 0 (143-160); an exception of the
\* integration call was caught inside execute_crew (622-623) and the stage
\* succeeds; an exception of close() in the finally (161-163) replaces
\* whatever was being returned
facade_execute_stage(stage_name, ev) ==
  IF ev.close = "raise"
    THEN [kind |-> "raise", token_usage |-> 0, cost_estimate |-> 0]
  ELSE IF ev.crew = "raise"
    THEN [kind |-> "failure", token_usage |-> 0, cost_estimate |-> 0]
  ELSE [kind |-> "success", token_usage |-> ev.usage[1],
        cost_estimate |-> ev.usage[2]]

\* what ai_runtime.execute_stage can hand back: a StageResult with
\* success, one with success=False (usage 0), or an exception
StageResults(stage_name) ==
  { facade_execute_stage(stage_name, ev) : ev \in StageEvents(stage_name) }

\* mutant: the failure state is never entered
failure_transition_skipped(m, st, t) == [m |-> m, exc |-> "none"]

\* the failure-state transition of the except block, 277-279
failure_transition(m, st, t) ==
  IF st.failure = "NONE" THEN [m |-> m, exc |-> "none"]
  ELSE transition_state(m, st.failure, t)

\* mutant: the total is clamped at the ceiling
accumulate_totals_clamped(m, res) ==
  [m EXCEPT
     !.total_token_usage = @ + res.token_usage,
     !.total_cost_estimate =
        IF @ + res.cost_estimate > m.max_allowed_cost
          THEN m.max_allowed_cost ELSE @ + res.cost_estimate]

\* "Update MVP totals", lines 227-230
accumulate_totals(m, res) ==
  [m EXCEPT
     !.total_token_usage = @ + res.token_usage,
     !.total_cost_estimate = @ + res.cost_estimate]

\* the record with the closing assignments of lines 215-246 / 263-269
close_agent_run(ar, status, log, t) ==
  [ar EXCEPT !.status = status, !.completed_at = t,
             !.duration_ms = DurationMs(ar.started_at, t), !.log = log]

\* mutant: the completed record does not take the result's usage
normal_path_close_without_usage(ar, res, t) ==
  IF res.kind = "success"
    THEN close_agent_run(ar, "completed", "agent_logs", t)
    ELSE close_agent_run(ar, "failed", "error", t)

\* the try block once the collaborator has returned a StageResult, 214-248
normal_path_close(ar, res, t) ==
  IF res.kind = "success"
    THEN [close_agent_run(ar, "completed", "agent_logs", t) EXCEPT
            !.token_usage = res.token_usage,
            !.cost_estimate = res.cost_estimate]
    ELSE close_agent_run(ar, "failed", "error", t)

\* mutant: the except block closes the record whatever its status
except_block_close_unconditional(ar, t) ==
  close_agent_run(ar, "failed", "stage_failed", t)

\* the except block, 260-273: only a record still running is closed
except_block_close(ar, t) ==
  IF ar.status = "running"
    THEN close_agent_run(ar, "failed", "stage_failed", t)
    ELSE ar

\* mutant: the runtime ceiling is checked again when the collaborator returns
execute_stage_close_preempting(m, runs, r, res, t) ==
  LET k == Len(runs) IN
  IF check_runtime_limit(r, t)
    THEN [m |-> m,
          runs |-> [runs EXCEPT ![k] = except_block_close(runs[k], t)],
          pc |-> "except_limit", stage |-> r.stage,
          exc |-> "RuntimeLimitExceeded"]
    ELSE [m |-> accumulate_totals(m, res),
          runs |-> [runs EXCEPT ![k] =
                      normal_path_close(runs[k],
                         [res EXCEPT !.kind = "success"], t)],
          pc |-> IF r.stage < NumStages THEN "stage" ELSE "complete",
          stage |-> IF r.stage < NumStages THEN r.stage + 1 ELSE r.stage,
          exc |-> "none"]

\* mutant: a failed stage is logged and the run goes on to the next stage
execute_stage_close_swallows_failure(m, runs, r, res, t) ==
  LET k == Len(runs) IN
    [m |-> IF res.kind = "success" THEN accumulate_totals(m, res) ELSE m,
     runs |-> [runs EXCEPT ![k] =
                 except_block_close(
                   IF res.kind = "raise" THEN runs[k]
                   ELSE normal_path_close(runs[k], res, t), t)],
     pc |-> IF r.stage < NumStages THEN "stage" ELSE "complete",
     stage |-> IF r.stage < NumStages THEN r.stage + 1 ELSE r.stage,
     exc |-> "none"]

\* _execute_stage from the return of the collaborator to its own return or
\* raise: the row, the attempt table, and where run() goes next
execute_stage_close(m, runs, r, res, t) ==
  LET st == STAGES[r.stage]
      k  == Len(runs)
      ar == runs[k]
  IN
  IF res.kind = "success"
    THEN [m |-> accumulate_totals(m, res),
          runs |-> [runs EXCEPT ![k] = normal_path_close(ar, res, t)],
          pc |-> IF r.stage < NumStages THEN "stage" ELSE "complete",
          stage |-> IF r.stage < NumStages THEN r.stage + 1 ELSE r.stage,
          exc |-> "none"]
  ELSE
    \* success=False: lines 240-248 close the record and commit, then
    \* raise Exception(error); the collaborator raising: the try block
    \* changed nothing.  Either way the except block runs next.
    LET ar1 == IF res.kind = "failure" THEN normal_path_close(ar, res, t)
                                       ELSE ar
        m1  == IF res.kind = "failure"
                 THEN [m EXCEPT !.last_error_stage = st.name] ELSE m
        ar2 == except_block_close(ar1, t)
        m2  == IF ar1.status = "running"
                 THEN [m1 EXCEPT !.last_error_stage = st.name] ELSE m1
        ft  == failure_transition(m2, st, t)
    IN [m |-> ft.m,
        runs |-> [runs EXCEPT ![k] = ar2],
        pc |-> "except_exception",
        stage |-> r.stage,
        exc |-> IF ft.exc # "none" THEN ft.exc
                ELSE IF res.kind = "failure" THEN "Exception"
                ELSE "CollaboratorError"]

StageReturn(u) ==
  /\ up
  /\ run[u].pc = "await"
  /\ \E ev \in StageEvents(STAGES[run[u].stage].name) :
       LET res == facade_execute_stage(STAGES[run[u].stage].name, ev)
           o == execute_stage_close(mvp[u], agent_runs[u], run[u], res, now)
       IN
         /\ res \in StageResults(STAGES[run[u].stage].name)
         /\ mvp' = [mvp EXCEPT ![u] = o.m]
         /\ agent_runs' = [agent_runs EXCEPT ![u] = o.runs]
         /\ run' = [run EXCEPT ![u] = [@ EXCEPT !.pc = o.pc, !.exc = o.exc,
                                                !.stage = o.stage,
                                                !.result = res,
                                                !.events = ev]]
  /\ UNCHANGED <<run_result, mvp_pipeline_active, up, now, ticks, transition_call>>
  /\ before' = Snapshot
  /\ UNCHANGED <<alert_tasks, limiter, build>>
  /\ UNCHANGED usage_vars

(* ---------------------- run(), lines 98-111 ---------------------------- *)
\* mutant: the run that finished its stages is marked FAILED
run_complete_marks_failed(m, t) == transition_state(m, "FAILED", t)

\* all five stages returned: transition to COMPLETED
run_complete(m, t) == transition_state(m, "COMPLETED", t)

\* the record left when run() exits; the finally block decrements the gauge
Exited(r, raised) ==
  [exc |-> raised, cause |-> r.exc, origin |-> r.origin,
   retry_before |-> r.retry_before, status_before |-> r.status_before,
   last_stage |-> r.stage]

\* mutant: the gauge is decremented at the end of the try body and of each
\* handler, so an exception raised inside a handler leaves it as it was
finally_block_after_handler(g, r, raised) ==
  IF raised = r.exc THEN g - 1 ELSE g

\* run(), finally: mvp_pipeline_active.dec(), however run() is left
finally_block(g, r, raised) == g - 1

Complete(u) ==
  /\ up
  /\ run[u].pc = "complete"
  /\ LET o == run_complete(mvp[u], now) IN
       /\ mvp' = [mvp EXCEPT ![u] = o.m]
       /\ IF o.exc = "none"
            THEN /\ run' = [run EXCEPT ![u] = Ended(run[u])]
                 /\ run_result' = [run_result EXCEPT ![u] = Exited(run[u], "none")]
                 /\ mvp_pipeline_active' =
                      finally_block(mvp_pipeline_active, run[u], "none")
            ELSE /\ run' = [run EXCEPT ![u] = [@ EXCEPT !.pc = "except_exception",
                                                       !.exc = o.exc]]
                 /\ UNCHANGED <<run_result, mvp_pipeline_active>>
  /\ UNCHANGED <<agent_runs, up, now, ticks, transition_call>>
  /\ before' = Snapshot
  /\ UNCHANGED <<alert_tasks, limiter, build>>
  /\ UNCHANGED usage_vars

(* ------- run(), except (CostLimitExceededError, RuntimeLimit...) ------- *)
\* lines 113-134, on the row as re-read in a fresh session; what is not
\* committed before an exception is lost with the session
\* mutant: FAILED is written without going through _transition_state
except_limit_handler_unvalidated(m, exc, t) ==
  [m |-> [m EXCEPT !.last_error_stage = "cost_or_runtime_limit",
                   !.status = "FAILED", !.updated_at = t],
   raised |-> exc]

\* mutant: the guardrail handler does the retry bookkeeping too
except_limit_handler_counts_retry(m, exc, t) ==
  LET tr == transition_state(
              [m EXCEPT !.last_error_stage = "cost_or_runtime_limit",
                        !.retry_count = @ + 1],
              "FAILED", t)
  IN IF tr.exc = "none" THEN [m |-> tr.m, raised |-> exc]
                        ELSE [m |-> m, raised |-> tr.exc]

except_limit_handler(m, exc, t) ==
  LET tr == transition_state(
              [m EXCEPT !.last_error_stage = "cost_or_runtime_limit"],
              "FAILED", t)
  IN IF tr.exc = "none" THEN [m |-> tr.m, raised |-> exc]
                        ELSE [m |-> m, raised |-> tr.exc]

ExceptLimit(u) ==
  /\ up
  /\ run[u].pc = "except_limit"
  /\ LET o == except_limit_handler(mvp[u], run[u].exc, now) IN
       /\ mvp' = [mvp EXCEPT ![u] = o.m]
       /\ run_result' = [run_result EXCEPT ![u] = Exited(run[u], o.raised)]
       /\ mvp_pipeline_active' =
            finally_block(mvp_pipeline_active, run[u], o.raised)
  /\ run' = [run EXCEPT ![u] = Ended(run[u])]
  /\ UNCHANGED <<agent_runs, up, now, ticks, transition_call>>
  /\ before' = Snapshot
  /\ UNCHANGED <<alert_tasks, limiter, build>>
  /\ UNCHANGED usage_vars

(* ------------------- run(), except Exception, 136-158 ------------------ *)
\* mutant: the retry bookkeeping is done for a terminal unit too
except_exception_handler_any_state(m, exc, t) ==
  LET rc == m.retry_count + 1 IN
    IF rc >= MAX_AGENT_RETRIES
      THEN LET tr == transition_state([m EXCEPT !.retry_count = rc],
                                      "FAILED", t)
           IN IF tr.exc = "none" THEN [m |-> tr.m, raised |-> exc]
                                 ELSE [m |-> m, raised |-> tr.exc]
      ELSE [m |-> [m EXCEPT !.retry_count = rc], raised |-> exc]

\* mutant: the unit is failed one retry late (> where the code has >=)
except_exception_handler_late_fail(m, exc, t) ==
  IF is_terminal_state(m.status) THEN [m |-> m, raised |-> exc]
  ELSE LET rc == m.retry_count + 1 IN
    IF rc > MAX_AGENT_RETRIES
      THEN LET tr == transition_state([m EXCEPT !.retry_count = rc],
                                      "FAILED", t)
           IN IF tr.exc = "none" THEN [m |-> tr.m, raised |-> exc]
                                 ELSE [m |-> m, raised |-> tr.exc]
      ELSE [m |-> [m EXCEPT !.retry_count = rc], raised |-> exc]

\* mutant: the incremented retry_count is not committed below the maximum
except_exception_handler_no_persist(m, exc, t) ==
  IF is_terminal_state(m.status) THEN [m |-> m, raised |-> exc]
  ELSE LET rc == m.retry_count + 1 IN
    IF rc >= MAX_AGENT_RETRIES
      THEN LET tr == transition_state([m EXCEPT !.retry_count = rc],
                                      "FAILED", t)
           IN IF tr.exc = "none" THEN [m |-> tr.m, raised |-> exc]
                                 ELSE [m |-> m, raised |-> tr.exc]
      ELSE [m |-> m, raised |-> exc]

except_exception_handler(m, exc, t) ==
  IF is_terminal_state(m.status) THEN [m |-> m, raised |-> exc]
  ELSE LET rc == m.retry_count + 1 IN
    IF rc >= MAX_AGENT_RETRIES
      THEN LET tr == transition_state([m EXCEPT !.retry_count = rc],
                                      "FAILED", t)
           IN IF tr.exc = "none" THEN [m |-> tr.m, raised |-> exc]
                                 ELSE [m |-> m, raised |-> tr.exc]
      ELSE [m |-> [m EXCEPT !.retry_count = rc], raised |-> exc]

ExceptException(u) ==
  /\ up
  /\ run[u].pc = "except_exception"
  /\ LET o == except_exception_handler(mvp[u], run[u].exc, now) IN
       /\ mvp' = [mvp EXCEPT ![u] = o.m]
       /\ run_result' = [run_result EXCEPT ![u] = Exited(run[u], o.raised)]
       /\ mvp_pipeline_active' =
            finally_block(mvp_pipeline_active, run[u], o.raised)
  /\ run' = [run EXCEPT ![u] = Ended(run[u])]
  /\ UNCHANGED <<agent_runs, up, now, ticks, transition_call>>
  /\ before' = Snapshot
  /\ UNCHANGED <<alert_tasks, limiter, build>>
  /\ UNCHANGED usage_vars

(* ------------- the alert task, alerting.py 191-203 --------------------- *)
\* the event loop runs an alert task to its end: the alert was sent (or
\* skipped in the cooldown), or the coroutine raised; the exception stays
\* in the task, which nobody awaits
AlertTask(outcome) ==
  /\ up
  /\ alert_tasks.pending > 0
  /\ alert_tasks' = [pending |-> alert_tasks.pending - 1, last |-> outcome]
  /\ UNCHANGED pipeline_vars
  /\ UNCHANGED usage_vars
  /\ before' = Snapshot
  /\ UNCHANGED <<limiter, build>>

(* ------------------- process crash and restart ------------------------- *)
\* the process dies: every task and the in-memory gauge are lost, the
\* database stays
Crash ==
  /\ up
  /\ up' = FALSE
  /\ run' = [u \in DOMAIN run |-> NoRun]
  /\ mvp_pipeline_active' = 0
  /\ alert_tasks' = NoAlerts
  /\ limiter' = NoLimiter(limiter.storage)
  /\ build' = NoBuild
  /\ UNCHANGED <<mvp, agent_runs, run_result, now, ticks, transition_call>>
  /\ before' = Snapshot
  /\ UNCHANGED usage_vars

\* mutant: the scan selects every row
resume_incomplete_pipelines_all(rows) == DOMAIN rows

\* the rows resume_incomplete_pipelines selects
resume_incomplete_pipelines(rows) ==
  { u \in DOMAIN rows : rows[u].status \in NON_TERMINAL_STATES }

\* mutant: the scan is run again in a process that is up
Startup_on_live_process ==
  /\ up
  /\ up' = TRUE
  /\ run' = [u \in DOMAIN run |->
               IF u \in resume_incomplete_pipelines(mvp)
                 THEN Scheduled(run[u], "recovery")
                 ELSE run[u]]
  /\ UNCHANGED <<mvp, agent_runs, run_result, mvp_pipeline_active, now, ticks, transition_call>>
  /\ before' = Snapshot
  /\ UNCHANGED <<alert_tasks, limiter, build>>
  /\ UNCHANGED usage_vars

\* lifespan startup: one detached run() per selected row
Startup ==
  /\ ~ up
  /\ up' = TRUE
  /\ run' = [u \in DOMAIN run |->
               IF u \in resume_incomplete_pipelines(mvp)
                 THEN Scheduled(run[u], "recovery")
                 ELSE run[u]]
  /\ UNCHANGED <<mvp, agent_runs, run_result, mvp_pipeline_active, now, ticks, transition_call>>
  /\ before' = Snapshot
  /\ UNCHANGED <<alert_tasks, limiter, build>>
  /\ UNCHANGED usage_vars

(* ------------- MVPService.check_pipeline_conflict, 62-70 --------------- *)
\* the exception the guard raises for a row ("none": it returns); it reads
\* the row and writes nothing. No caller exists in the application.
check_pipeline_conflict(m) ==
  IF is_non_terminal_state(m.status) THEN "PipelineConflictError" ELSE "none"

(* ---------------- callers outside the wired application --------------- *)
\* a caller constructs AutonomousPipeline(mvp_id) for an existing row and
\* schedules run(); one owner per unit: none is in flight for it
Retrigger(u) ==
  /\ up
  /\ u \in DOMAIN mvp
  /\ run[u].pc = "none"
  /\ alert_tasks.pending < MaxPendingAlerts
  /\ run' = [run EXCEPT ![u] = Scheduled(run[u], "retrigger")]
  /\ UNCHANGED <<mvp, agent_runs, run_result, mvp_pipeline_active, up, now,
                 ticks, transition_call>>
  /\ before' = Snapshot
  /\ UNCHANGED <<alert_tasks, limiter, build>>
  /\ UNCHANGED usage_vars

\* MVPService.create_mvp alone
create_mvp ==
  /\ up
  /\ Len(mvp) < MaxUnits
  /\ mvp' = Append(mvp, NewMVP(now))
  /\ UNCHANGED <<agent_runs, run, run_result, mvp_pipeline_active, up, now,
                 ticks, transition_call>>
  /\ before' = Snapshot
  /\ UNCHANGED <<alert_tasks, limiter, build>>
  /\ UNCHANGED usage_vars

\* MVPService.transition_state(mvp_id, new_state)
TransitionState(u, new_state) ==
  /\ up
  /\ u \in DOMAIN mvp
  /\ LET o == service_transition_state(mvp[u], new_state, now) IN
       /\ mvp' = [mvp EXCEPT ![u] = o.m]
       /\ transition_call' = [mvp_id |-> u, from |-> mvp[u].status,
                              to |-> new_state, raised |-> o.exc # "none"]
  /\ UNCHANGED <<agent_runs, run, run_result, mvp_pipeline_active, up, now,
                 ticks>>
  /\ before' = Snapshot
  /\ UNCHANGED <<alert_tasks, limiter, build>>
  /\ UNCHANGED usage_vars

Next ==
  \/ \E d \in TickSteps : Tick(d)
  \/ start_mvp_pipeline
  \/ \E u \in Units : RunBegin(u)
  \/ \E u \in Units : ExecuteStage(u)
  \/ \E u \in Units : StageReturn(u)
  \/ \E u \in Units : Complete(u)
  \/ \E u \in Units : ExceptLimit(u)
  \/ \E u \in Units : ExceptException(u)
  \/ Crash
  \/ Startup
  \/ \E outcome \in {"sent", "failed"} : AlertTask(outcome)

\* the application as main.py wires it: POST /start and the startup scan
Spec == Init /\ [][Next]_vars

\* the application with its scheduling: a task that can take its next step
\* takes it (the event loop runs every ready task, the collaborator call
\* returns or raises), and a process that is down is started again;
\* crashes, requests and the clock are under no obligation
Fairness ==
  /\ \A u \in Units : /\ WF_vars(RunBegin(u))
                      /\ WF_vars(ExecuteStage(u))
                      /\ WF_vars(StageReturn(u))
                      /\ WF_vars(Complete(u))
                      /\ WF_vars(ExceptLimit(u))
                      /\ WF_vars(ExceptException(u))
  /\ WF_vars(Startup)

SpecLive == Spec /\ Fairness

\* the application plus direct run() calls on existing rows
NextApi ==
  \/ Next
  \/ \E u \in Units : Retrigger(u)

SpecApi == Init /\ [][NextApi]_vars

\* the service layer alone: rows are created and transition_state is
\* called with every target state
NextFSM ==
  \/ \E d \in TickSteps : Tick(d)
  \/ create_mvp
  \/ \E u \in Units, to \in MVPState : TransitionState(u, to)

SpecFSM == Init /\ [][NextFSM]_vars

(* ------------------- the recovery scan on its own ---------------------- *)
\* what the program leaves in the database for one unit, computed with the
\* operators of the pipeline (every stage at time 0, usage (1, 1)):
\* the unit after its first k stages succeeded
RECURSIVE AfterStages(_)
AfterStages(k) ==
  IF k = 0 THEN [m |-> NewMVP(0), runs |-> << >>]
  ELSE LET p == AfterStages(k - 1)
           r == [NoRun EXCEPT !.stage = k, !.pipeline_start_time = 0]
           e == execute_stage_entry(p.m, p.runs, r, 0)
           c == execute_stage_close(e.m, e.runs, r,
                  [kind |-> "success", token_usage |-> 1,
                   cost_estimate |-> 1], 0)
       IN [m |-> c.m, runs |-> c.runs]

\* the process died during the collaborator call of stage k
InterruptedIn(k) ==
  LET p == AfterStages(k - 1)
      r == [NoRun EXCEPT !.stage = k, !.pipeline_start_time = 0]
      e == execute_stage_entry(p.m, p.runs, r, 0)
  IN [m |-> e.m, runs |-> e.runs]

\* stage k reported success=False and run() went through its handler
FailedIn(k) ==
  LET p == InterruptedIn(k)
      r == [NoRun EXCEPT !.stage = k, !.pipeline_start_time = 0]
      c == execute_stage_close(p.m, p.runs, r,
             [kind |-> "failure", token_usage |-> 0, cost_estimate |-> 0], 0)
  IN [m |-> except_exception_handler(c.m, c.exc, 0).m, runs |-> c.runs]

\* all five stages succeeded and run() marked the unit COMPLETED
Finished ==
  [m |-> run_complete(AfterStages(NumStages).m, 0).m,
   runs |-> AfterStages(NumStages).runs]

\* ideation failed and two recovery runs failed after it: retries used up
Exhausted ==
  LET p  == FailedIn(1)
      m2 == except_exception_handler(p.m, "StateTransitionError", 0).m
  IN [m |-> except_exception_handler(m2, "StateTransitionError", 0).m,
      runs |-> p.runs]

PersistedUnits ==
  {AfterStages(0), Finished, Exhausted}
    \cup { InterruptedIn(k) : k \in 1..NumStages }
    \cup { FailedIn(k) : k \in 1..NumStages }

\* the process is down, over a database of ScanUnits units
InitScan ==
  /\ \E db \in [1..ScanUnits -> PersistedUnits] :
       /\ mvp = [u \in 1..ScanUnits |-> db[u].m]
       /\ agent_runs = [u \in 1..ScanUnits |-> db[u].runs]
  /\ run = [u \in 1..ScanUnits |-> NoRun]
  /\ run_result = [u \in 1..ScanUnits |-> NoResult]
  /\ mvp_pipeline_active = 0
  /\ up = FALSE
  /\ now = 0
  /\ ticks = 0
  /\ transition_call = NoCall
  /\ alert_tasks = NoAlerts
  /\ limiter = NoLimiter("memory")
  /\ build = NoBuild
  /\ before = Snapshot
  /\ GLOBAL_TOTAL_TOKENS = 0
  /\ GLOBAL_TOTAL_COST = 0
  /\ crew = [p \in Pipelines |-> NoCrew]
  /\ router = NoRouter
  /\ estimate = NoEstimate

\* the process is started, and killed before any task has run
NextScan ==
  \/ Startup
  \/ Crash

SpecScan == InitScan /\ [][NextScan]_vars

(* ------------- LLM usage accounting, llm_router / crewai_service ------- *)
\* (total_tokens, cost in 1e-5 USD) of one completion as the callback
\* computes them
CallUsage == { <<2, 4>>, <<5, 15>> }

\* round(x, 4) on an amount in 1e-5 USD: to the nearest multiple of 10,
\* a tie going to the even fourth decimal
Round4(x) ==
  LET q == x \div 10
      r == x % 10
  IN IF r < 5 THEN q * 10
     ELSE IF r > 5 THEN (q + 1) * 10
     ELSE IF q % 2 = 0 THEN q * 10 ELSE (q + 1) * 10

Max(a, b) == IF a >= b THEN a ELSE b

\* mutant: the router reports its own totals only
get_usage_stats_local(c) ==
  [total_tokens_used |-> c.total_tokens_used,
   total_cost |-> Round4(c.total_cost)]

\* LLMRouter.get_usage_stats of the router of facade c
get_usage_stats(c) ==
  [total_tokens_used |-> Max(GLOBAL_TOTAL_TOKENS, c.total_tokens_used),
   total_cost |-> Round4(Max(GLOBAL_TOTAL_COST, c.total_cost))]

\* AIRuntimeFacade.execute_stage calls crewai_service.execute_crew
execute_crew(p) ==
  /\ crew[p].pc = "idle"
  /\ crew[p].stage < MaxCrewStages
  /\ crew' = [crew EXCEPT ![p] = [@ EXCEPT !.pc = "kickoff", !.calls = 0,
                                          !.stage_tokens = 0,
                                          !.stage_cost = 0]]
  /\ UNCHANGED <<GLOBAL_TOTAL_TOKENS, GLOBAL_TOTAL_COST, router, estimate>>
  /\ UNCHANGED pipeline_vars
  /\ before' = Snapshot
  /\ UNCHANGED <<alert_tasks, limiter, build>>

\* an agent of pipeline p's crew got a completion: litellm runs the
\* module-level success callback
litellm_success_callback(p, tokens, cost) ==
  /\ crew[p].pc = "kickoff"
  /\ crew[p].calls < MaxCalls
  /\ GLOBAL_TOTAL_TOKENS' = GLOBAL_TOTAL_TOKENS + tokens
  /\ GLOBAL_TOTAL_COST' = GLOBAL_TOTAL_COST + cost
  /\ crew' = [crew EXCEPT ![p] = [@ EXCEPT !.calls = @ + 1,
                                          !.own_tokens = @ + tokens,
                                          !.own_cost = @ + cost,
                                          !.stage_tokens = @ + tokens,
                                          !.stage_cost = @ + cost]]
  /\ UNCHANGED <<router, estimate>>
  /\ UNCHANGED pipeline_vars
  /\ before' = Snapshot
  /\ UNCHANGED <<alert_tasks, limiter, build>>

\* execute_crew builds its CrewRunResult from get_usage_stats (625-636),
\* the facade wraps it in a StageResult, _execute_stage adds it to the
\* unit's totals (227-230); no await in between
crew_return(p) ==
  /\ crew[p].pc = "kickoff"
  /\ LET stats == get_usage_stats(crew[p])
         res   == [success |-> TRUE,
                   token_usage |-> stats.total_tokens_used,
                   cost_estimate |-> stats.total_cost]
     IN crew' = [crew EXCEPT ![p] =
                   [accumulate_totals(@, res) EXCEPT
                      !.pc = "idle", !.stage = @ + 1, !.result = res,
                      !.incurred_tokens = @ + crew[p].stage_tokens,
                      !.incurred_cost = @ + Round4(crew[p].stage_cost)]]
  /\ UNCHANGED <<GLOBAL_TOTAL_TOKENS, GLOBAL_TOTAL_COST, router, estimate>>
  /\ UNCHANGED pipeline_vars
  /\ before' = Snapshot
  /\ UNCHANGED <<alert_tasks, limiter, build>>

\* the crew raised: the facade returns success=False with usage 0 and
\* _execute_stage adds nothing
crew_fail(p) ==
  /\ crew[p].pc = "kickoff"
  /\ crew' = [crew EXCEPT ![p] =
                [@ EXCEPT !.pc = "idle", !.stage = @ + 1,
                          !.result = [success |-> FALSE, token_usage |-> 0,
                                      cost_estimate |-> 0]]]
  /\ UNCHANGED <<GLOBAL_TOTAL_TOKENS, GLOBAL_TOTAL_COST, router, estimate>>
  /\ UNCHANGED pipeline_vars
  /\ before' = Snapshot
  /\ UNCHANGED <<alert_tasks, limiter, build>>

NextUsage ==
  \/ \E p \in Pipelines : execute_crew(p)
  \/ \E p \in Pipelines, x \in CallUsage :
       litellm_success_callback(p, x[1], x[2])
  \/ \E p \in Pipelines : crew_return(p)
  \/ \E p \in Pipelines : crew_fail(p)

\* the stage executions of several pipelines in one process
SpecUsage == Init /\ [][NextUsage]_vars


(* ------------- LLMRouter.execute_llm_call, llm_router 176-259 ---------- *)
\* max_attempts = max_retries or config.MAX_LLM_RETRIES: None and 0 are
\* both falsy
max_attempts(max_retries) ==
  IF max_retries \in {NULL, 0} THEN MAX_LLM_RETRIES ELSE max_retries

\* _raw_llm_call under its tenacity decorator: the provider is called up to
\* RAW_CALL_ATTEMPTS times; fails is the number of calls that raise before
\* one returns; the last exception is re-raised
raw_llm_call(fails) ==
  IF fails < RAW_CALL_ATTEMPTS THEN "returned" ELSE "raised"

\* the attempt that has just been made, appended to the call's history;
\* the content of a response is identified by the attempt that got it
Recorded(r, outcome, usage) ==
  [r EXCEPT !.attempts =
              Append(@, [outcome |-> outcome, content |-> r.attempt,
                         token_usage |-> usage[1], cost |-> usage[2]]),
            !.incurred_tokens = @ + usage[1],
            !.incurred_cost = @ + usage[2]]

\* mutant: the totals keep the usage of the latest attempt of a call only
track_totals_latest_only(r, usage) ==
  [r EXCEPT !.total_tokens_used = r.tokens_at_call + usage[1],
            !.total_cost = r.cost_at_call + usage[2]]

\* 221-223: self.total_tokens_used += total_tokens; self.total_cost += cost
track_totals(r, usage) ==
  [r EXCEPT !.total_tokens_used = @ + usage[1],
            !.total_cost = @ + usage[2]]

\* mutant: a failed attempt is retried without counting against the budget
\* until the response schema is satisfied
except_exception_branch_unbudgeted(r) ==
  IF r.attempt = r.max_attempts /\ ~ r.response_schema
    THEN [r EXCEPT !.pc = "raised", !.exc = "LLMRouterError"]
    ELSE [r EXCEPT !.attempt = @ + 1]

\* 250-257: except Exception: break after the last attempt (the raise at
\* 259 follows the loop), otherwise sleep and go round again
except_exception_branch(r) ==
  IF r.attempt = r.max_attempts
    THEN [r EXCEPT !.pc = "raised", !.exc = "LLMRouterError"]
    ELSE [r EXCEPT !.attempt = @ + 1]

\* one iteration of the for loop, 192-257. raw: what _raw_llm_call did;
\* valid: whether the response satisfies the schema; usage: (total_tokens,
\* cost) computed for the response
loop_iteration(r, raw, valid, usage) ==
  IF raw = "raised"
    THEN except_exception_branch(Recorded(r, "transport", <<0, 0>>))
    ELSE LET t == track_totals(r, usage) IN
      IF r.response_schema /\ ~ valid
        THEN IF r.attempt < r.max_attempts
               THEN \* continue
                    [Recorded(t, "invalid", usage) EXCEPT !.attempt = @ + 1]
               ELSE \* raise LLMRouterError inside the try: caught at 250
                    except_exception_branch(Recorded(t, "invalid", usage))
        ELSE [Recorded(t, "valid", usage) EXCEPT
                !.pc = "returned",
                !.response =
                  [token_usage |-> usage[1], cost_estimate |-> usage[2],
                   raw_output |-> r.attempt,
                   parsed_output |->
                     IF r.response_schema THEN r.attempt ELSE NULL]]

\* a caller awaits execute_llm_call on the router
execute_llm_call(max_retries, response_schema) ==
  /\ router.pc \in {"idle", "returned", "raised"}
  /\ router.calls < MaxRouterCalls
  /\ LET n == max_attempts(max_retries)
         r == [router EXCEPT !.pc = "attempt", !.calls = @ + 1,
                             !.max_attempts = n,
                             !.response_schema = response_schema,
                             !.attempt = 1, !.attempts = << >>,
                             !.tokens_at_call = router.total_tokens_used,
                             !.cost_at_call = router.total_cost,
                             !.response = NoLLMResponse, !.exc = "none"]
     IN router' = IF n < 1
                    THEN [r EXCEPT !.pc = "raised", !.exc = "LLMRouterError"]
                    ELSE r
  /\ UNCHANGED <<GLOBAL_TOTAL_TOKENS, GLOBAL_TOTAL_COST, crew, estimate>>
  /\ UNCHANGED pipeline_vars
  /\ before' = Snapshot
  /\ UNCHANGED <<alert_tasks, limiter, build>>

\* the call makes its next attempt
llm_attempt(fails, valid, usage) ==
  /\ router.pc = "attempt"
  /\ router' = loop_iteration(router, raw_llm_call(fails), valid, usage)
  /\ UNCHANGED <<GLOBAL_TOTAL_TOKENS, GLOBAL_TOTAL_COST, crew, estimate>>
  /\ UNCHANGED pipeline_vars
  /\ before' = Snapshot
  /\ UNCHANGED <<alert_tasks, limiter, build>>

\* max_retries as callers give it: None, or a positive number
MaxRetriesInputs == {NULL, 1, 2}

\* one router taking direct calls while the crew of one pipeline runs in
\* the same process and litellm reports its completions
NextRouter ==
  \/ \E n \in MaxRetriesInputs, schema \in BOOLEAN :
       execute_llm_call(n, schema)
  \/ \E fails \in 0..RAW_CALL_ATTEMPTS, valid \in BOOLEAN, x \in CallUsage :
       llm_attempt(fails, valid, x)
  \/ execute_crew(1)
  \/ \E x \in CallUsage : litellm_success_callback(1, x[1], x[2])
  \/ crew_return(1)
  \/ crew_fail(1)

SpecRouter == Init /\ [][NextRouter]_vars

\* a call in progress makes its next attempt: the provider call returns or
\* raises (the clients set timeouts) and the backoff sleep ends
FairnessRouter ==
  WF_vars(\E fails \in 0..RAW_CALL_ATTEMPTS, valid \in BOOLEAN,
             x \in CallUsage : llm_attempt(fails, valid, x))

SpecRouterLive == SpecRouter /\ FairnessRouter


(* ------------- LLMRouter.estimate_cost, llm_router 115-174 ------------- *)
\* a string is the sequence of its characters. MODEL_COSTS in the order the
\* dict literal inserts its keys, which is the order a loop over it visits
\* them; rates in 1e-5 USD per 1000 tokens
MODEL_COSTS ==
  <<
    [key |-> <<"g", "p", "t", "-", "4">>,
     input |-> 3000, output |-> 6000],
    [key |-> <<"g", "p", "t", "-", "4", "-", "t", "u", "r", "b", "o">>,
     input |-> 1000, output |-> 3000],
    [key |-> <<"g", "p", "t", "-", "4", "o">>,
     input |-> 500, output |-> 1500],
    [key |-> <<"g", "p", "t", "-", "4", "o", "-", "m", "i", "n", "i">>,
     input |-> 15, output |-> 60],
    [key |-> <<"g", "p", "t", "-", "3", ".", "5", "-", "t", "u", "r", "b",
            "o">>,
     input |-> 50, output |-> 150],
    [key |-> <<"c", "l", "a", "u", "d", "e", "-", "3", "-", "o", "p", "u",
            "s">>,
     input |-> 1500, output |-> 7500],
    [key |-> <<"c", "l", "a", "u", "d", "e", "-", "3", "-", "s", "o", "n",
            "n", "e", "t", "-", "2", "0", "2", "4", "0", "2", "2", "9">>,
     input |-> 300, output |-> 1500],
    [key |-> <<"c", "l", "a", "u", "d", "e", "-", "3", "-", "h", "a", "i",
            "k", "u", "-", "2", "0", "2", "4", "0", "3", "0", "7">>,
     input |-> 25, output |-> 125],
    [key |-> <<"l", "l", "a", "m", "a", "-", "3", ".", "3", "-", "7", "0",
            "b", "-", "v", "e", "r", "s", "a", "t", "i", "l", "e">>,
     input |-> 0, output |-> 0],
    [key |-> <<"l", "l", "a", "m", "a", "-", "3", ".", "1", "-", "7", "0",
            "b", "-", "v", "e", "r", "s", "a", "t", "i", "l", "e">>,
     input |-> 0, output |-> 0],
    [key |-> <<"l", "l", "a", "m", "a", "-", "3", ".", "1", "-", "8", "b",
            "-", "i", "n", "s", "t", "a", "n", "t">>,
     input |-> 0, output |-> 0],
    [key |-> <<"g", "e", "m", "m", "a", "2", "-", "9", "b", "-", "i", "t">>,
     input |-> 0, output |-> 0],
    [key |-> <<"m", "i", "x", "t", "r", "a", "l", "-", "8", "x", "7", "b",
            "-", "3", "2", "7", "6", "8">>,
     input |-> 0, output |-> 0],
    [key |-> <<"l", "l", "a", "m", "a", "3", "-", "7", "0", "b">>,
     input |-> 70, output |-> 90],
    [key |-> <<"l", "l", "a", "m", "a", "3", "-", "8", "b">>,
     input |-> 10, output |-> 10],
    [key |-> <<"l", "l", "a", "m", "a", "-", "3", ".", "1", "-", "7", "0",
            "b">>,
     input |-> 60, output |-> 60],
    [key |-> <<"g", "e", "m", "i", "n", "i", "-", "1", ".", "5", "-", "f",
            "l", "a", "s", "h">>,
     input |-> 0, output |-> 0],
    [key |-> <<"g", "e", "m", "i", "n", "i", "-", "1", ".", "5", "-", "p",
            "r", "o">>,
     input |-> 0, output |-> 0],
    [key |-> <<"g", "e", "m", "i", "n", "i", "-", "2", ".", "0", "-", "f",
            "l", "a", "s", "h">>,
     input |-> 0, output |-> 0],
    [key |-> <<"o", "l", "l", "a", "m", "a">>,
     input |-> 0, output |-> 0]
  >>

\* the default of MODEL_COSTS.get(model, {"input": 0.01, "output": 0.03})
DefaultCosts == [input |-> 1000, output |-> 3000]

UpperCase ==
  <<"A", "B", "C", "D", "E", "F", "G", "H", "I", "J", "K", "L", "M",
    "N", "O", "P", "Q", "R", "S", "T", "U", "V", "W", "X", "Y", "Z">>

LowerCase ==
  <<"a", "b", "c", "d", "e", "f", "g", "h", "i", "j", "k", "l", "m",
    "n", "o", "p", "q", "r", "s", "t", "u", "v", "w", "x", "y", "z">>

\* str.lower()
lower(str) ==
  [i \in 1..Len(str) |->
     IF \E k \in 1..26 : UpperCase[k] = str[i]
       THEN LowerCase[CHOOSE k \in 1..26 : UpperCase[k] = str[i]]
       ELSE str[i]]

\* key in str
IsSubstring(key, str) ==
  \E i \in 0..(Len(str) - Len(key)) : SubSeq(str, i + 1, i + Len(key)) = key

\* the positions of the table whose key occurs in the lowered model name
MatchingKeys(model) ==
  { i \in 1..Len(MODEL_COSTS) : IsSubstring(MODEL_COSTS[i].key, lower(model)) }

\* 166-170: costs = MODEL_COSTS.get(model, default); then the first key, in
\* table order, that occurs in model.lower() replaces it (break)
resolve_costs(model) ==
  LET hits == MatchingKeys(model)
      exact == { i \in 1..Len(MODEL_COSTS) : MODEL_COSTS[i].key = model }
      got == IF exact = {} THEN DefaultCosts
             ELSE LET e == MODEL_COSTS[CHOOSE i \in exact : TRUE]
                  IN [input |-> e.input, output |-> e.output]
  IN IF hits = {} THEN got
     ELSE LET first == CHOOSE i \in hits : \A j \in hits : i <= j
          IN [input |-> MODEL_COSTS[first].input,
              output |-> MODEL_COSTS[first].output]

\* 172-174, times 1000: the cost in 1e-8 USD
estimate_cost(model, input_tokens, output_tokens) ==
  LET costs == resolve_costs(model)
  IN [costs |-> costs,
      cost |-> input_tokens * costs.input + output_tokens * costs.output]

\* model names the environment can configure, and token counts
ModelNames ==
  {
    <<"g", "p", "t", "-", "4">>,
    <<"g", "p", "t", "-", "4", "o">>,
    <<"g", "p", "t", "-", "4", "o", "-", "m", "i", "n", "i">>,
    <<"g", "p", "t", "-", "4", "-", "t", "u", "r", "b", "o">>,
    <<"G", "P", "T", "-", "4", "o", "-", "m", "i", "n", "i">>,
    <<"g", "p", "t", "-", "3", ".", "5", "-", "t", "u", "r", "b", "o">>,
    <<"c", "l", "a", "u", "d", "e", "-", "3", "-", "o", "p", "u", "s">>,
    <<"l", "l", "a", "m", "a", "-", "3", ".", "1", "-", "7", "0", "b", "-",
      "v", "e", "r", "s", "a", "t", "i", "l", "e">>,
    <<"l", "l", "a", "m", "a", "-", "3", ".", "1", "-", "7", "0", "b">>,
    <<"g", "r", "o", "q", "/", "l", "l", "a", "m", "a", "-", "3", ".", "1",
      "-", "8", "b", "-", "i", "n", "s", "t", "a", "n", "t">>,
    <<"o", "l", "l", "a", "m", "a", "/", "c", "o", "d", "e", "l", "l", "a",
      "m", "a", ":", "l", "a", "t", "e", "s", "t">>,
    <<"o", "1", "-", "p", "r", "e", "v", "i", "e", "w">>
  }

TokenCounts == {0, 1000, 2500}

\* estimate_cost is about to be called with some arguments
InitCost ==
  /\ mvp = << >>
  /\ agent_runs = [u \in Units |-> << >>]
  /\ run = [u \in Units |-> NoRun]
  /\ run_result = [u \in Units |-> NoResult]
  /\ mvp_pipeline_active = 0
  /\ up = TRUE
  /\ now = 0
  /\ ticks = 0
  /\ transition_call = NoCall
  /\ alert_tasks = NoAlerts
  /\ limiter = NoLimiter("memory")
  /\ build = NoBuild
  /\ before = Snapshot
  /\ GLOBAL_TOTAL_TOKENS = 0
  /\ GLOBAL_TOTAL_COST = 0
  /\ crew = [p \in Pipelines |-> NoCrew]
  /\ router = NoRouter
  /\ \E model \in ModelNames, i \in TokenCounts, o \in TokenCounts :
       estimate = [NoEstimate EXCEPT !.pc = "args", !.model = model,
                                     !.input_tokens = i, !.output_tokens = o]

\* the call returns
estimate_cost_return ==
  /\ estimate.pc = "args"
  /\ LET e == estimate_cost(estimate.model, estimate.input_tokens,
                            estimate.output_tokens)
     IN estimate' = [estimate EXCEPT !.pc = "done", !.costs = e.costs,
                                     !.cost = e.cost]
  /\ UNCHANGED <<GLOBAL_TOTAL_TOKENS, GLOBAL_TOTAL_COST, crew, router>>
  /\ UNCHANGED pipeline_vars
  /\ before' = Snapshot
  /\ UNCHANGED <<alert_tasks, limiter, build>>

NextCost == estimate_cost_return

SpecCost == InitCost /\ [][NextCost]_vars


(* -------- the building stage of execute_crew, crewai_service.py -------- *)
\* max_build_retries = getattr(config, "MAX_AGENT_RETRIES", 3)
max_build_retries == MAX_AGENT_RETRIES

\* what one crew.kickoff of the building crew does: it returns a result
\* without an error indicator ("ok"), a result with exit_code 0 spelled
\* out, one with a non-zero exit_code, one without exit_code that has an
\* error indicator, or it raises: an Ollama access error, a rate limit
\* error, another exception
KickoffOutcomes ==
  {"ok", "exit_code_zero", "exit_code_nonzero", "error_indicator",
   "ollama_error", "rate_limit", "exception"}

\* 423-433: build_failed and last_exit_code of a returned result
build_failed(outcome) == outcome \in {"exit_code_nonzero", "error_indicator"}

last_exit_code(outcome, previous) ==
  CASE outcome = "exit_code_zero" -> 0
    [] outcome = "exit_code_nonzero" -> 2
    [] outcome = "error_indicator" -> 1
    [] outcome = "ok" -> 0
    [] OTHER -> previous

\* 389-524, one iteration of the while loop, with the kickoff's outcome:
\* the iteration continues the loop, breaks out of it or raises
build_iteration(b, outcome) ==
  LET seen == [b EXCEPT !.kickoffs = Append(@, outcome),
                        !.last_exit_code = last_exit_code(outcome, @)]
  IN
  IF outcome \in {"ok", "exit_code_zero", "exit_code_nonzero",
                  "error_indicator"}
    THEN IF build_failed(outcome) /\ b.current_attempt < max_build_retries
           THEN [seen EXCEPT !.current_attempt = @ + 1]
           \* 468-480: the else branch logs and falls through to the break
           ELSE [seen EXCEPT !.pc = "returned"]
    ELSE IF b.current_attempt < max_build_retries
           THEN [seen EXCEPT !.current_attempt = @ + 1]
           ELSE [seen EXCEPT !.pc = "raised", !.exc = "StageExecutionError"]

\* execute_crew("building", ...) is called: 384-387
BuildStart ==
  /\ build.pc = "idle"
  /\ build.kickoffs = << >>
  /\ build' = [NoBuild EXCEPT !.pc = "loop", !.current_attempt = 1]
  /\ UNCHANGED pipeline_vars
  /\ UNCHANGED usage_vars
  /\ UNCHANGED <<alert_tasks, limiter, before>>

\* the loop test of 389 and one iteration
BuildAttempt(outcome) ==
  /\ build.pc = "loop"
  /\ build.current_attempt <= max_build_retries
  /\ build' = build_iteration(build, outcome)
  /\ UNCHANGED pipeline_vars
  /\ UNCHANGED usage_vars
  /\ UNCHANGED <<alert_tasks, limiter, before>>

\* after the loop, 570-637: a result left by the loop is formatted and
\* returned as the CrewRunResult of the stage, which the facade reports as
\* success; StageExecutionError leaves execute_crew and the facade
\* reports failure
BuildResult ==
  /\ build.pc \in {"returned", "raised"}
  /\ build' = [build EXCEPT !.pc = IF build.pc = "returned"
                                     THEN "success" ELSE "failure"]
  /\ UNCHANGED pipeline_vars
  /\ UNCHANGED usage_vars
  /\ UNCHANGED <<alert_tasks, limiter, before>>

NextBuild ==
  \/ BuildStart
  \/ \E outcome \in KickoffOutcomes : BuildAttempt(outcome)
  \/ BuildResult

SpecBuild == Init /\ [][NextBuild]_vars


(* ------------- rate limiting, middleware/rate_limiter.py --------------- *)
\* ticks of the limiter's clock in a second
TicksPerSecond == 2

\* parse_rate_limit of the limits the environment configures, as
\* <<limit, window in seconds>>: MVP_CREATION_LIMIT (default "10/hour")
\* and MVP_GET_LIMIT (default "200/minute"), scaled down
MVP_CREATION_LIMIT == <<2, 3>>
MVP_GET_LIMIT == <<3, 1>>

\* rate_limit_middleware 262-270: the limit of the endpoint requested
EndpointLimit(endpoint) ==
  IF endpoint = "start" THEN MVP_CREATION_LIMIT ELSE MVP_GET_LIMIT

Endpoints == {"start", "get"}

\* [req_time for req_time in requests if req_time > cutoff]
RECURSIVE Newer(_, _)
Newer(times, cutoff) ==
  IF times = << >> THEN << >>
  ELSE IF Head(times) > cutoff
         THEN << Head(times) >> \o Newer(Tail(times), cutoff)
         ELSE Newer(Tail(times), cutoff)

\* min(times) of a non-empty list
RECURSIVE MinOf(_)
MinOf(times) ==
  IF Len(times) = 1 THEN times[1]
  ELSE LET m == MinOf(Tail(times))
       IN IF Head(times) <= m THEN Head(times) ELSE m

\* int(x) + 1 of a time span x >= 0 given in ticks
RetryAfter(span) == (span \div TicksPerSecond) + 1

\* InMemoryRateLimiter.is_allowed, 34-62, on the list kept for the key:
\* the list it leaves and the pair it returns
InMemoryRateLimiter_is_allowed(times, limit, window, t) ==
  LET kept == Newer(times, t - window * TicksPerSecond) IN
    IF Len(kept) < limit
      THEN [requests |-> Append(kept, t), allowed |-> TRUE, retry_after |-> 0]
      ELSE [requests |-> kept, allowed |-> FALSE,
            retry_after |->
              RetryAfter(MinOf(kept) + window * TicksPerSecond - t)]

\* InMemoryRateLimiter.get_usage, 64-70: the list it leaves
InMemoryRateLimiter_get_usage(times, window, t) ==
  Newer(times, t - window * TicksPerSecond)

\* RedisRateLimiter.is_allowed with redis_client None, 103-107:
\* InMemoryRateLimiter().is_allowed(...) on a limiter made for this call
RedisRateLimiter_is_allowed(limit, window, t) ==
  InMemoryRateLimiter_is_allowed(<< >>, limit, window, t)

\* the longest window configured, in ticks
MaxWindowTicks ==
  TicksPerSecond *
    (IF MVP_CREATION_LIMIT[2] >= MVP_GET_LIMIT[2]
       THEN MVP_CREATION_LIMIT[2] ELSE MVP_GET_LIMIT[2])

\* rate_limit_middleware, 247-322, for a request of a client to an
\* endpoint: is_allowed with the endpoint's limit under the client's key
\* and, for an admitted request, get_usage with the same window
rate_limit_middleware(client, endpoint) ==
  /\ limiter.served < MaxRequests
  /\ LET limit  == EndpointLimit(endpoint)[1]
         window == EndpointLimit(endpoint)[2]
         t      == limiter.clock
         r      == IF limiter.storage = "memory"
                     THEN InMemoryRateLimiter_is_allowed(
                            limiter.requests[client], limit, window, t)
                     ELSE RedisRateLimiter_is_allowed(limit, window, t)
         kept   == IF limiter.storage = "memory"
                     THEN (IF r.allowed
                             THEN InMemoryRateLimiter_get_usage(
                                    r.requests, window, t)
                             ELSE r.requests)
                     ELSE limiter.requests[client]
     IN limiter' =
          [limiter EXCEPT
             !.served = @ + 1,
             !.requests[client] = kept,
             !.admitted[client] =
               Newer(IF r.allowed THEN Append(@, t) ELSE @,
                     t - MaxWindowTicks),
             !.last = [key |-> client, limit |-> limit, window |-> window,
                       allowed |-> r.allowed,
                       retry_after |-> r.retry_after, at |-> t]]
  /\ UNCHANGED pipeline_vars
  /\ UNCHANGED usage_vars
  /\ UNCHANGED <<alert_tasks, before, build>>

\* time passes
LimiterTick ==
  /\ limiter.clock < MaxLimiterTime
  /\ limiter' = [limiter EXCEPT !.clock = @ + 1]
  /\ UNCHANGED pipeline_vars
  /\ UNCHANGED usage_vars
  /\ UNCHANGED <<alert_tasks, before, build>>

\* the process has started, with RATE_LIMIT_STORAGE memory, or redis and no
\* client
InitLimiter ==
  /\ mvp = << >>
  /\ agent_runs = [u \in Units |-> << >>]
  /\ run = [u \in Units |-> NoRun]
  /\ run_result = [u \in Units |-> NoResult]
  /\ mvp_pipeline_active = 0
  /\ up = TRUE
  /\ now = 0
  /\ ticks = 0
  /\ transition_call = NoCall
  /\ alert_tasks = NoAlerts
  /\ \E storage \in {"memory", "redis"} : limiter = NoLimiter(storage)
  /\ build = NoBuild
  /\ before = Snapshot
  /\ GLOBAL_TOTAL_TOKENS = 0
  /\ GLOBAL_TOTAL_COST = 0
  /\ crew = [p \in Pipelines |-> NoCrew]
  /\ router = NoRouter
  /\ estimate = NoEstimate

NextLimiter ==
  \/ LimiterTick
  \/ \E client \in Clients, endpoint \in Endpoints :
       rate_limit_middleware(client, endpoint)

SpecLimiter == InitLimiter /\ [][NextLimiter]_vars


(* ====================== the claims, C1 .. C10 ========================= *)

\* the transition table as the specification prints it (section 3)
TableEdges ==
  { <<"CREATED", "IDEATING">>,
    <<"IDEATING", "ARCHITECTING">>, <<"IDEATING", "FAILED">>,
    <<"ARCHITECTING", "BUILDING">>, <<"ARCHITECTING", "FAILED">>,
    <<"BUILDING", "DEPLOYING">>, <<"BUILDING", "BUILD_FAILED">>,
    <<"BUILD_FAILED", "BUILDING">>, <<"BUILD_FAILED", "FAILED">>,
    <<"DEPLOYING", "TOKENIZING">>, <<"DEPLOYING", "DEPLOY_FAILED">>,
    <<"DEPLOY_FAILED", "DEPLOYING">>, <<"DEPLOY_FAILED", "FAILED">>,
    <<"TOKENIZING", "COMPLETED">>, <<"TOKENIZING", "FAILED">> }

TenStates ==
  {"CREATED", "IDEATING", "ARCHITECTING", "BUILDING", "BUILD_FAILED",
   "DEPLOYING", "DEPLOY_FAILED", "TOKENIZING", "COMPLETED", "FAILED"}

Guardrails == {"CostLimitExceeded", "RuntimeLimitExceeded"}

\* the last step was unit u's _execute_stage entry (guardrails, transition,
\* record creation)
EnteredStage(u) ==
  /\ before.run[u].pc = "stage"
  /\ run[u].pc \in {"await", "except_limit", "except_exception"}

\* the last step was the collaborator of unit u returning success
ClosedStageOk(u) ==
  /\ before.run[u].pc = "await"
  /\ run[u].pc \in {"stage", "complete"}

\* time since run() began, at the state the last step was taken from
ElapsedBefore(u) == before.now - before.run[u].pipeline_start_time

\* C1: every change of a unit's persisted status is an edge of the
\* transition table, a new row starts in CREATED, and the status is always
\* one of the ten states.
C1_StatusChangesAreEdges ==
  \A u \in DOMAIN mvp :
    /\ mvp[u].status \in TenStates
    /\ IF u \in DOMAIN before.mvp
         THEN mvp[u].status # before.mvp[u].status
                => <<before.mvp[u].status, mvp[u].status>> \in TableEdges
         ELSE mvp[u].status = "CREATED"

\* a guardrail handler has written FAILED through the validated transition
C1_Witness ==
  \E u \in DOMAIN mvp :
    /\ mvp[u].status = "FAILED"
    /\ mvp[u].last_error_stage = "cost_or_runtime_limit"
    /\ run_result[u].cause = "CostLimitExceeded"

\* C2: when run() has exited on a guardrail violation, the unit's persisted
\* status is FAILED.
C2_GuardrailRunEndsFailed ==
  \A u \in DOMAIN mvp :
    run_result[u].cause \in Guardrails => mvp[u].status = "FAILED"

\* C3: once a unit's status is COMPLETED or FAILED no step changes it.
C3_TerminalIsForever ==
  \A u \in DOMAIN before.mvp :
    before.mvp[u].status \in {"COMPLETED", "FAILED"}
      => mvp[u].status = before.mvp[u].status

\* a run() that began on a terminal unit has exited
C3_Witness ==
  \E u \in DOMAIN mvp :
    /\ run_result[u].status_before \in {"COMPLETED", "FAILED"}
    /\ run_result[u].exc # "none"
    /\ mvp[u].status = run_result[u].status_before

\* C4: is_valid_transition agrees with the table on all 100 pairs,
\* get_valid_next_states(S) is the table's row of S, a state is terminal
\* iff it has no outgoing edge and non-terminal iff it is not terminal; and
\* every transition_state call made raised iff its pair is off the table.
C4_TableIsExact ==
  /\ MVPState = TenStates
  /\ \A f \in TenStates, t \in TenStates :
       is_valid_transition(f, t) <=> <<f, t>> \in TableEdges
  /\ \A f \in TenStates :
       /\ get_valid_next_states(f) = { t \in TenStates : <<f, t>> \in TableEdges }
       /\ is_terminal_state(f) <=> ~ \E t \in TenStates : <<f, t>> \in TableEdges
       /\ is_non_terminal_state(f) <=> ~ is_terminal_state(f)
  /\ transition_call.to # "none" =>
       (transition_call.raised
          <=> <<transition_call.from, transition_call.to>> \notin TableEdges)

\* a call on a terminal unit was rejected
C4_Witness ==
  /\ transition_call.from = "COMPLETED"
  /\ transition_call.to = "IDEATING"
  /\ transition_call.raised

\* C5: a transition_state call whose pair is off the table raises and
\* leaves the row (status, updated_at) as it was; a call whose pair is in
\* the table sets status to the target and updated_at does not go back; no
\* other row is touched.
C5_TransitionContract ==
  transition_call # before.transition_call =>
    LET u  == transition_call.mvp_id
        to == transition_call.to
    IN /\ u \in DOMAIN before.mvp
       /\ \A v \in DOMAIN before.mvp : v # u => mvp[v] = before.mvp[v]
       /\ IF <<before.mvp[u].status, to>> \in TableEdges
            THEN /\ ~ transition_call.raised
                 /\ mvp[u].status = to
                 /\ mvp[u].updated_at >= before.mvp[u].updated_at
                 /\ mvp[u].updated_at = now
            ELSE /\ transition_call.raised
                 /\ mvp[u] = before.mvp[u]

\* a valid call made after the clock advanced, and an invalid one
C5_Witness ==
  \E u \in DOMAIN mvp :
    /\ transition_call.mvp_id = u
    /\ transition_call.from = "BUILD_FAILED"
    /\ transition_call.to = "BUILDING"
    /\ ~ transition_call.raised
    /\ mvp[u].status = "BUILDING"
    /\ mvp[u].updated_at > 0

\* the stage the persisted status implies (section 4.6)
ImpliedStage(status) ==
  CASE status \in {"CREATED", "IDEATING"}       -> "ideation"
    [] status = "ARCHITECTING"                  -> "architecture"
    [] status \in {"BUILDING", "BUILD_FAILED"}   -> "building"
    [] status \in {"DEPLOYING", "DEPLOY_FAILED"} -> "deployment"
    [] status = "TOKENIZING"                    -> "tokenization"
    [] OTHER                                    -> "none"

\* C6: a run started by the recovery scan begins at the stage its unit's
\* persisted status implies.
C6_ResumeAtImpliedStage ==
  \A u \in DOMAIN mvp :
    (run[u].origin = "recovery" /\ run[u].pc = "stage" /\ run[u].attempts = 0)
      => STAGES[run[u].stage].name = ImpliedStage(mvp[u].status)

\* C7: at a stage entry with total_cost_estimate >= max_allowed_cost a
\* guardrail is raised (CostLimitExceeded unless the runtime check, which
\* comes first, fired), and the entry leaves the row and the attempt table
\* as they were; the collaborator is not invoked.
C7_CostCheckPrecedesEffects ==
  \A u \in DOMAIN before.mvp :
    (EnteredStage(u)
       /\ before.mvp[u].total_cost_estimate >= before.mvp[u].max_allowed_cost)
      => /\ run[u].pc = "except_limit"
         /\ run[u].exc \in Guardrails
         /\ (ElapsedBefore(u) < MAX_TOTAL_RUNTIME
               => run[u].exc = "CostLimitExceeded")
         /\ mvp[u] = before.mvp[u]
         /\ agent_runs[u] = before.agent_runs[u]

\* CostLimitExceeded raised with the total exactly at the ceiling
C7_Witness ==
  \E u \in DOMAIN mvp :
    /\ run[u].pc = "except_limit"
    /\ run[u].exc = "CostLimitExceeded"
    /\ mvp[u].total_cost_estimate = mvp[u].max_allowed_cost
    /\ mvp[u].status = "IDEATING"
    /\ Len(agent_runs[u]) = 1

\* C8: a successful stage closes as completed and its cost is added to the
\* total whatever the ceiling, with the status left at the stage's state;
\* the collaborator is never invoked with the total at or above the
\* ceiling, and the next stage entry then raises CostLimitExceeded.
C8_CeilingCheckedAtNextBoundary ==
  \A u \in DOMAIN before.mvp :
    /\ ClosedStageOk(u) =>
         LET k == Len(before.agent_runs[u]) IN
           /\ Len(agent_runs[u]) = k
           /\ agent_runs[u][k].status = "completed"
           /\ mvp[u].total_cost_estimate =
                before.mvp[u].total_cost_estimate + agent_runs[u][k].cost_estimate
           /\ mvp[u].status = before.mvp[u].status
    /\ (EnteredStage(u) /\ run[u].pc = "await")
         => before.mvp[u].total_cost_estimate < before.mvp[u].max_allowed_cost
    /\ (EnteredStage(u) /\ ElapsedBefore(u) < MAX_TOTAL_RUNTIME
          /\ before.mvp[u].total_cost_estimate >= before.mvp[u].max_allowed_cost)
         => run[u].exc = "CostLimitExceeded"

\* costs 1, 1, 10: building closed with total 12 and the deployment
\* pre-check raised
C8_Witness ==
  \E u \in DOMAIN mvp :
    /\ run[u].pc = "except_limit"
    /\ run[u].exc = "CostLimitExceeded"
    /\ STAGES[run[u].stage].name = "deployment"
    /\ mvp[u].total_cost_estimate = 12
    /\ Len(agent_runs[u]) = 3
    /\ agent_runs[u][3].stage = "building"
    /\ agent_runs[u][3].status = "completed"
    /\ agent_runs[u][3].cost_estimate = 10

\* C9: at a stage entry with elapsed time since run() began >=
\* MAX_TOTAL_RUNTIME, RuntimeLimitExceeded is raised, before the transition
\* and before the collaborator is invoked.
C9_RuntimeCheckPrecedesEffects ==
  \A u \in DOMAIN before.mvp :
    (EnteredStage(u) /\ ElapsedBefore(u) >= MAX_TOTAL_RUNTIME)
      => /\ run[u].pc = "except_limit"
         /\ run[u].exc = "RuntimeLimitExceeded"
         /\ mvp[u] = before.mvp[u]
         /\ agent_runs[u] = before.agent_runs[u]

\* the first stage took the whole budget: the second attempt raised
C9_Witness ==
  \E u \in DOMAIN mvp :
    /\ run[u].pc = "except_limit"
    /\ run[u].exc = "RuntimeLimitExceeded"
    /\ run[u].stage = 2
    /\ now - run[u].pipeline_start_time = MAX_TOTAL_RUNTIME
    /\ agent_runs[u][1].status = "completed"

\* C10: a run that ended on a guardrail violation left retry_count as it
\* was when the run began, and from the violation on the run creates no
\* attempt record and exits at its next step.
C10_GuardrailNeverRetried ==
  \A u \in DOMAIN mvp :
    /\ run_result[u].cause \in Guardrails
         => mvp[u].retry_count = run_result[u].retry_before
    /\ (before.run[u].exc \in Guardrails /\ run[u] # before.run[u])
         => /\ run[u] = NoRun
            /\ agent_runs[u] = before.agent_runs[u]

\* a run stopped by the runtime ceiling has exited, retry_count untouched
C10_Witness ==
  \E u \in DOMAIN mvp :
    /\ run_result[u].cause = "RuntimeLimitExceeded"
    /\ run_result[u].last_stage = 3
    /\ mvp[u].retry_count = 0
    /\ run[u].pc = "none"

(* ====================== the claims, C11 .. C20 ======================== *)

\* the last step was taken by the run of unit u (not a crash of the process)
RunStepped(u) == up /\ run[u] # before.run[u]

\* the last attempt record of unit u
LastRun(u) == agent_runs[u][Len(agent_runs[u])]

\* C11: between a stage's transition to its target state and the closing of
\* its attempt record no guardrail is raised: the step that follows the
\* collaborator call closes the record and goes on (or fails on the stage's
\* own result), however long the call took and whatever it cost.
C11_NoGuardrailInsideStage ==
  \A u \in DOMAIN before.mvp :
    (before.run[u].pc = "await" /\ RunStepped(u))
      => /\ run[u].pc \in {"stage", "complete", "except_exception"}
         /\ run[u].exc \notin Guardrails
         /\ Len(agent_runs[u]) = Len(before.agent_runs[u])
         /\ LastRun(u).status \in {"completed", "failed"}

\* a stage that overran the whole runtime budget and the whole cost ceiling
\* closed as completed and the run went on
C11_Witness ==
  \E u \in DOMAIN mvp :
    /\ run[u].pc = "stage"
    /\ Len(agent_runs[u]) = 1
    /\ LastRun(u).status = "completed"
    /\ LastRun(u).duration_ms >= MAX_TOTAL_RUNTIME * 1000
    /\ LastRun(u).cost_estimate >= mvp[u].max_allowed_cost

\* the stage sequence as the specification lists it
StageOrder ==
  <<"ideation", "architecture", "building", "deployment", "tokenization">>

\* C12: the attempt records of a unit follow the stage order, a record is
\* created only by the stage entry of the stage next in line, after the
\* record before it was closed as completed, and the records are ordered by
\* started_at (each one starts no earlier than the one before it ended).
C12_StagesInOrder ==
  \A u \in DOMAIN mvp :
    LET rs == agent_runs[u] IN
      /\ Len(rs) <= Len(StageOrder)
      /\ \A i \in 1..Len(rs) :
           /\ rs[i].stage = StageOrder[i]
           /\ i < Len(rs) =>
                /\ rs[i].status = "completed"
                /\ rs[i].completed_at <= rs[i+1].started_at
                /\ rs[i].started_at <= rs[i+1].started_at
      /\ Len(rs) > Len(before.agent_runs[u]) =>
           /\ Len(rs) = Len(before.agent_runs[u]) + 1
           /\ before.run[u].pc = "stage"
           /\ before.run[u].stage = Len(rs)

\* five records, in order, the later ones started strictly later
C12_Witness ==
  \E u \in DOMAIN mvp :
    /\ Len(agent_runs[u]) = 5
    /\ agent_runs[u][5].stage = "tokenization"
    /\ agent_runs[u][2].started_at > agent_runs[u][1].started_at
    /\ agent_runs[u][5].started_at > agent_runs[u][2].started_at

\* C13: the status becomes COMPLETED only by the step of a run that raised
\* nothing and whose five stages all closed as completed, in order; and a
\* run that got through its five stages ends with status COMPLETED and no
\* exception.
C13_CompletedIffAllStages ==
  \A u \in DOMAIN before.mvp :
    /\ (mvp[u].status = "COMPLETED" /\ before.mvp[u].status # "COMPLETED")
         => /\ before.run[u].pc = "complete"
            /\ before.run[u].exc = "none"
            /\ before.run[u].attempts = 5
            /\ Len(agent_runs[u]) = 5
            /\ \A i \in 1..5 : /\ agent_runs[u][i].stage = StageOrder[i]
                               /\ agent_runs[u][i].status = "completed"
    /\ (before.run[u].pc = "complete" /\ RunStepped(u))
         => /\ mvp[u].status = "COMPLETED"
            /\ run[u] = NoRun
            /\ run_result[u].exc = "none"

\* a run completed although its total went over the ceiling in the last stage
C13_Witness ==
  \E u \in DOMAIN mvp :
    /\ mvp[u].status = "COMPLETED"
    /\ run_result[u].exc = "none"
    /\ run_result[u].last_stage = 5
    /\ mvp[u].total_cost_estimate > mvp[u].max_allowed_cost

\* the last step was the except Exception block of unit u's run, taken with
\* the unit in a non-terminal state
HandledException(u) ==
  /\ before.run[u].pc = "except_exception"
  /\ RunStepped(u)
  /\ before.mvp[u].status \notin {"COMPLETED", "FAILED"}

\* C14: a run ending on a non-guardrail exception with retry_count + 1 below
\* MAX_AGENT_RETRIES persists retry_count + 1, leaves everything else of
\* the unit (its status included) as it was, creates no attempt record, and
\* exits with the exception.
C14_RetryBelowMaxParks ==
  \A u \in DOMAIN before.mvp :
    (HandledException(u)
       /\ before.mvp[u].retry_count + 1 < MAX_AGENT_RETRIES)
      => /\ mvp[u] = [before.mvp[u] EXCEPT !.retry_count = @ + 1]
         /\ agent_runs[u] = before.agent_runs[u]
         /\ run[u] = NoRun
         /\ run_result[u].exc = before.run[u].exc

\* a failed build left the unit parked in BUILD_FAILED with one retry counted
C14_Witness ==
  \E u \in DOMAIN mvp :
    /\ run[u].pc = "none"
    /\ run_result[u].exc = "Exception"
    /\ mvp[u].status = "BUILD_FAILED"
    /\ mvp[u].retry_count = 1

\* C15: a run ending on a non-guardrail exception with retry_count + 1 >=
\* MAX_AGENT_RETRIES leaves the unit FAILED with the incremented
\* retry_count persisted, whichever non-terminal state it was parked in.
C15_RetryAtMaxFails ==
  \A u \in DOMAIN before.mvp :
    (HandledException(u)
       /\ before.mvp[u].retry_count + 1 >= MAX_AGENT_RETRIES)
      => /\ mvp[u].status = "FAILED"
         /\ mvp[u].retry_count = before.mvp[u].retry_count + 1
         /\ run[u] = NoRun

\* C16: the usage a stage result reports for a unit is that of the
\* completions made for that unit (since the process started), whatever
\* other pipelines of the process spent meanwhile.
C16_IndependentCounters ==
  \A p \in Pipelines :
    (crew[p].pc = "idle" /\ crew[p].result.success)
      => /\ crew[p].result.token_usage = crew[p].own_tokens
         /\ crew[p].result.cost_estimate = Round4(crew[p].own_cost)

\* C17: every attempt record that is in status running is eventually closed
\* as completed or failed, whatever happens to the run that created it.
C17_NoRecordRunsForever ==
  \A u \in Units : \A i \in 1..NumStages :
    (Len(agent_runs[u]) >= i /\ agent_runs[u][i].status = "running")
      ~> (Len(agent_runs[u]) >= i
            /\ agent_runs[u][i].status \in {"completed", "failed"})

\* C18: a stage entry that passes the guardrails and the transition adds
\* exactly one record: running, attempt_number = retry_count + 1,
\* started_at = now, not yet closed; an entry that is rejected adds none;
\* and every closed record has started_at <= completed_at and duration_ms
\* equal to their difference in milliseconds.
C18_OneRecordPerAttempt ==
  \A u \in DOMAIN before.mvp :
    /\ (EnteredStage(u) /\ run[u].pc = "await")
         => /\ Len(agent_runs[u]) = Len(before.agent_runs[u]) + 1
            /\ SubSeq(agent_runs[u], 1, Len(before.agent_runs[u]))
                 = before.agent_runs[u]
            /\ LastRun(u).stage = StageOrder[before.run[u].stage]
            /\ LastRun(u).status = "running"
            /\ LastRun(u).attempt_number = before.mvp[u].retry_count + 1
            /\ LastRun(u).started_at = now
            /\ LastRun(u).completed_at = NULL
    /\ (EnteredStage(u) /\ run[u].pc # "await")
         => agent_runs[u] = before.agent_runs[u]
    /\ \A i \in 1..Len(agent_runs[u]) :
         agent_runs[u][i].status # "running"
           => /\ agent_runs[u][i].started_at <= agent_runs[u][i].completed_at
              /\ agent_runs[u][i].duration_ms =
                   1000 * (agent_runs[u][i].completed_at
                             - agent_runs[u][i].started_at)

\* a first attempt that took one second
C18_Witness ==
  \E u \in DOMAIN mvp :
    /\ Len(agent_runs[u]) = 2
    /\ agent_runs[u][1].attempt_number = 1
    /\ agent_runs[u][1].status = "completed"
    /\ agent_runs[u][1].duration_ms = 1000
    /\ agent_runs[u][2].status = "running"
    /\ agent_runs[u][2].started_at = now

\* C19: a record is never deleted, a closed record never changes, and a
\* record changes only by being closed (running -> completed or failed,
\* its stage, attempt_number and started_at kept); a record the normal path
\* closed on a success=false result keeps the collaborator's error text.
C19_RecordClosedOnce ==
  \A u \in Units :
    /\ Len(agent_runs[u]) >= Len(before.agent_runs[u])
    /\ \A i \in 1..Len(before.agent_runs[u]) :
         LET old == before.agent_runs[u][i]
             new == agent_runs[u][i]
         IN /\ old.status # "running" => new = old
            /\ new # old =>
                 /\ new.status \in {"completed", "failed"}
                 /\ new.completed_at # NULL
                 /\ new.stage = old.stage
                 /\ new.attempt_number = old.attempt_number
                 /\ new.started_at = old.started_at
    /\ (before.run[u].pc = "await" /\ RunStepped(u)
          /\ run[u].exc = "Exception")
         => /\ LastRun(u).status = "failed"
            /\ LastRun(u).log = "error"

\* a stage reported success=false, its record was closed, and the run has
\* since exited through the handler
C19_Witness ==
  \E u \in DOMAIN mvp :
    /\ run_result[u].cause = "Exception"
    /\ Len(agent_runs[u]) = 2
    /\ agent_runs[u][1].status = "completed"
    /\ agent_runs[u][2].status = "failed"
    /\ agent_runs[u][2].log = "error"

\* target and failure states of the stages as the specification gives them
StageTarget ==
  <<"IDEATING", "ARCHITECTING", "BUILDING", "DEPLOYING", "TOKENIZING">>

StageFailureState(k) ==
  CASE StageOrder[k] = "building"   -> "BUILD_FAILED"
    [] StageOrder[k] = "deployment" -> "DEPLOY_FAILED"
    [] OTHER                        -> "NONE"

\* C20: when the collaborator reports success=false or raises, the record
\* is closed as failed with an error text, last_error_stage is the stage
\* name, the status is the stage's failure state if it has one and is left
\* at the target state otherwise, the totals and retry_count are as they
\* were, and the stage's own exception goes on to the orchestrator.
C20_StageFailure ==
  \A u \in DOMAIN before.mvp :
    (before.run[u].pc = "await" /\ RunStepped(u)
       /\ run[u].pc = "except_exception")
      => LET k == before.run[u].stage IN
           /\ LastRun(u).stage = StageOrder[k]
           /\ LastRun(u).status = "failed"
           /\ LastRun(u).log \in {"error", "stage_failed"}
           /\ LastRun(u).completed_at = now
           /\ mvp[u].last_error_stage = StageOrder[k]
           /\ before.mvp[u].status = StageTarget[k]
           /\ mvp[u].status = IF StageFailureState(k) = "NONE"
                                THEN StageTarget[k]
                                ELSE StageFailureState(k)
           /\ mvp[u].total_token_usage = before.mvp[u].total_token_usage
           /\ mvp[u].total_cost_estimate = before.mvp[u].total_cost_estimate
           /\ mvp[u].retry_count = before.mvp[u].retry_count
           /\ run[u].exc \in {"Exception", "CollaboratorError"}

\* the deployment stage raised after three stages had been paid for
C20_Witness ==
  \E u \in DOMAIN mvp :
    /\ run[u].pc = "except_exception"
    /\ run[u].exc = "CollaboratorError"
    /\ mvp[u].status = "DEPLOY_FAILED"
    /\ mvp[u].last_error_stage = "deployment"
    /\ mvp[u].total_cost_estimate = 3
    /\ agent_runs[u][4].log = "stage_failed"

(* ====================== the claims, C21 .. C30 ======================== *)

\* C21: when a stage succeeds, total_token_usage and total_cost_estimate
\* each grow by exactly the token_usage and cost_estimate of the result the
\* collaborator returned, and the record is closed as completed with the
\* same two values.
C21_SuccessAccumulatesResult ==
  \A u \in DOMAIN before.mvp :
    ClosedStageOk(u) =>
      /\ run[u].result.kind = "success"
      /\ mvp[u].total_token_usage =
           before.mvp[u].total_token_usage + run[u].result.token_usage
      /\ mvp[u].total_cost_estimate =
           before.mvp[u].total_cost_estimate + run[u].result.cost_estimate
      /\ LastRun(u).status = "completed"
      /\ LastRun(u).token_usage = run[u].result.token_usage
      /\ LastRun(u).cost_estimate = run[u].result.cost_estimate

\* the second stage returned (3 tokens, cost 10) on top of (1, 1)
C21_Witness ==
  \E u \in DOMAIN mvp :
    /\ run[u].pc = "stage"
    /\ run[u].stage = 3
    /\ run[u].result = [kind |-> "success", token_usage |-> 3,
                        cost_estimate |-> 10]
    /\ mvp[u].total_token_usage = 4
    /\ mvp[u].total_cost_estimate = 11

\* C22: no step lowers a unit's total_token_usage or total_cost_estimate.
C22_TotalsNeverDecrease ==
  \A u \in DOMAIN before.mvp :
    /\ mvp[u].total_token_usage >= before.mvp[u].total_token_usage
    /\ mvp[u].total_cost_estimate >= before.mvp[u].total_cost_estimate

\* a run with two successes and a failed build has exited through the
\* handler, the totals still what the successes made them
C22_Witness ==
  \E u \in DOMAIN mvp :
    /\ run_result[u].cause = "Exception"
    /\ run_result[u].last_stage = 3
    /\ mvp[u].status = "BUILD_FAILED"
    /\ mvp[u].retry_count = 1
    /\ mvp[u].total_token_usage = 2
    /\ mvp[u].total_cost_estimate = 2

\* C23: when the startup scan has returned, a run has been scheduled for
\* exactly the units whose persisted status is non-terminal, every other
\* unit has no run, the database is as it was, and no scheduled run has
\* begun: the scan did not wait for any of them.
C23_ScanResumesNonTerminal ==
  (up /\ ~ \E u \in DOMAIN run : before.run[u].pc # "none") =>
    /\ \A u \in DOMAIN mvp :
         IF mvp[u].status \in {"COMPLETED", "FAILED"}
           THEN run[u] = NoRun
           ELSE /\ run[u].pc = "scheduled"
                /\ run[u].origin = "recovery"
    /\ mvp = before.mvp
    /\ agent_runs = before.agent_runs
    /\ mvp_pipeline_active = 0

\* the three units of the example: two resumed, the completed one untouched
C23_Witness ==
  /\ up
  /\ mvp[1].status = "BUILDING"
  /\ mvp[2].status = "DEPLOY_FAILED"
  /\ mvp[3].status = "COMPLETED"
  /\ run[1].pc = "scheduled" /\ run[1].origin = "recovery"
  /\ run[2].pc = "scheduled" /\ run[2].origin = "recovery"
  /\ run[3] = NoRun

\* C24: the gauge of active pipelines equals the number of runs that have
\* entered run() and not left it, on every path out of run(), an exception
\* raised inside a handler included; it is 0 when no run is in flight.
C24_GaugeCountsRunsInFlight ==
  mvp_pipeline_active =
    Cardinality({ u \in DOMAIN run : run[u].pc \notin {"none", "scheduled"} })

\* a run has left through a handler that itself raised, and the gauge is 0
C24_Witness ==
  /\ up
  /\ \E u \in DOMAIN run :
       /\ run[u].pc = "none"
       /\ before.run[u].pc = "except_limit"
       /\ run_result[u].exc = "StateTransitionError"
       /\ run_result[u].cause # "StateTransitionError"
  /\ mvp_pipeline_active = 0

\* C25: a run that is scheduled for a unit that existed already has passed
\* check_pipeline_conflict: the guard returned for the unit as it was, which
\* it does only for a unit in a terminal state.
C25_StartsPassConflictGuard ==
  \A u \in DOMAIN before.mvp :
    (/\ run[u].pc = "scheduled"
     /\ before.run[u].pc = "none"
     /\ run[u].origin # "start")
      => check_pipeline_conflict(before.mvp[u]) = "none"

\* the last attempt of the router's current call
LastAttempt == router.attempts[Len(router.attempts)]

\* what the attempts of a call whose provider call returned add up to
RECURSIVE ReturnedUsage(_)
ReturnedUsage(as) ==
  IF as = << >> THEN <<0, 0>>
  ELSE LET rest == ReturnedUsage(Tail(as))
           a    == Head(as)
       IN IF a.outcome \in {"valid", "invalid"}
            THEN <<rest[1] + a.token_usage, rest[2] + a.cost>>
            ELSE rest

C26_WithinBudget ==
  /\ Len(router.attempts) <= router.max_attempts
  /\ router.exc \in {"none", "LLMRouterError"}
  /\ router.pc = "attempt" =>
       /\ router.exc = "none"
       /\ Len(router.attempts) = router.attempt - 1
       /\ router.attempt <= router.max_attempts
  /\ router.pc = "returned" =>
       /\ router.exc = "none"
       /\ Len(router.attempts) >= 1
       /\ LastAttempt.outcome = "valid"
  /\ router.pc = "raised" =>
       /\ router.exc = "LLMRouterError"
       /\ Len(router.attempts) = router.max_attempts
       /\ LastAttempt.outcome \in {"transport", "invalid"}

C27_RetryReturnsLastCountsAll ==
  router.pc = "returned" =>
    /\ router.response.raw_output = Len(router.attempts)
    /\ router.response_schema =>
         router.response.parsed_output = LastAttempt.content
    /\ router.response.token_usage = LastAttempt.token_usage
    /\ router.response.cost_estimate = LastAttempt.cost
    /\ router.total_tokens_used =
         router.tokens_at_call + ReturnedUsage(router.attempts)[1]
    /\ router.total_cost =
         router.cost_at_call + ReturnedUsage(router.attempts)[2]

\* attempt 1 of 3 failed validation with usage (5, 15), attempt 2 was valid
\* with usage (2, 4)
C27_Witness ==
  /\ router.pc = "returned"
  /\ router.max_attempts = 3
  /\ router.response_schema
  /\ Len(router.attempts) = 2
  /\ router.attempts[1].outcome = "invalid"
  /\ router.attempts[1].token_usage = 5
  /\ router.response.parsed_output = 2
  /\ router.response.token_usage = 2
  /\ router.response.cost_estimate = 4
  /\ router.total_tokens_used = router.tokens_at_call + 7
  /\ router.total_cost = router.cost_at_call + 19

\* the usage of every completion of the process, each counted once: the
\* responses to the router's direct calls and those litellm reported
RECURSIVE CallbackUsage(_)
CallbackUsage(ps) ==
  IF ps = {} THEN <<0, 0>>
  ELSE LET p    == CHOOSE q \in ps : TRUE
           rest == CallbackUsage(ps \ {p})
       IN <<rest[1] + crew[p].own_tokens, rest[2] + crew[p].own_cost>>

IncurredUsage ==
  <<router.incurred_tokens + CallbackUsage(Pipelines)[1],
    router.incurred_cost + CallbackUsage(Pipelines)[2]>>

C28_ReportIsTheHigherSource ==
  LET stats == get_usage_stats(router) IN
    /\ stats.total_tokens_used \in
         {GLOBAL_TOTAL_TOKENS, router.total_tokens_used}
    /\ stats.total_tokens_used >= GLOBAL_TOTAL_TOKENS
    /\ stats.total_tokens_used >= router.total_tokens_used
    /\ stats.total_cost \in
         {Round4(GLOBAL_TOTAL_COST), Round4(router.total_cost)}
    /\ stats.total_cost >= Round4(GLOBAL_TOTAL_COST)
    /\ stats.total_cost >= Round4(router.total_cost)
    /\ stats.total_tokens_used <= IncurredUsage[1]
    /\ stats.total_cost <= Round4(IncurredUsage[2])

C28_ReportNeverDecreases ==
  /\ get_usage_stats(router)'.total_tokens_used
       >= get_usage_stats(router).total_tokens_used
  /\ get_usage_stats(router)'.total_cost >= get_usage_stats(router).total_cost
  /\ GLOBAL_TOTAL_TOKENS' >= GLOBAL_TOTAL_TOKENS
  /\ GLOBAL_TOTAL_COST' >= GLOBAL_TOTAL_COST
  /\ router'.total_tokens_used >= router.total_tokens_used
  /\ router'.total_cost >= router.total_cost

\* C28: get_usage_stats reports the higher of the router's local total and
\* the process-global total (the cost rounded to four decimals); however
\* direct calls and success callbacks interleave, no step makes the report
\* or either source smaller, and the report never exceeds the usage of the
\* completions made, each counted once.
C28_UsageReportMonotonic ==
  /\ []C28_ReportIsTheHigherSource
  /\ [][C28_ReportNeverDecreases]_vars

\* direct calls and callbacks have both happened; the local total is the
\* higher one and is what is reported, its cost rounded from 19 to 20
C28_Witness ==
  /\ GLOBAL_TOTAL_TOKENS = 5
  /\ GLOBAL_TOTAL_COST = 15
  /\ router.total_tokens_used = 7
  /\ router.total_cost = 19
  /\ get_usage_stats(router) = [total_tokens_used |-> 7, total_cost |-> 20]

\* the keys of the pricing table that match a model name and are as long as
\* any key that matches it
LongestMatchingKeys(model) ==
  { i \in MatchingKeys(model) :
      \A j \in MatchingKeys(model) :
        Len(MODEL_COSTS[i].key) >= Len(MODEL_COSTS[j].key) }

\* C29: the rate estimate_cost applies is that of the longest key of the
\* pricing table matching the model name, the default rate when no key
\* matches, and the cost is computed from that rate.
C29_RateOfLongestMatchingKey ==
  estimate.pc = "done" =>
    /\ IF MatchingKeys(estimate.model) = {}
         THEN estimate.costs = DefaultCosts
         ELSE \E i \in LongestMatchingKeys(estimate.model) :
                /\ estimate.costs.input = MODEL_COSTS[i].input
                /\ estimate.costs.output = MODEL_COSTS[i].output
    /\ estimate.cost = estimate.input_tokens * estimate.costs.input
                         + estimate.output_tokens * estimate.costs.output

\* a call of the facade has just returned to _execute_stage of unit u
FacadeReturned(u) ==
  /\ RunStepped(u)
  /\ before.run[u].pc = "await"

\* C30: when something failed inside the stage (the crew raised or the
\* integration call raised) the facade has not raised: it has returned a
\* result with success=false, token_usage 0 and cost_estimate 0.
C30_FailureIsReportedNotRaised ==
  \A u \in DOMAIN before.mvp :
    (/\ FacadeReturned(u)
     /\ \/ run[u].events.crew = "raise"
        \/ run[u].events.integration = "raise")
      => run[u].result = [kind |-> "failure", token_usage |-> 0,
                          cost_estimate |-> 0]

(* ====================== the claims, C31 .. C39 ======================== *)

\* an alert task has just run to its end
AlertFinished ==
  /\ up
  /\ alert_tasks.pending < before.alert_tasks.pending

\* C31: whatever alert tasks are waiting, have been sent or have failed, a
\* stage boundary that finds the cost ceiling reached goes straight to the
\* guardrail handler with CostLimitExceeded, creating an alert task without
\* waiting for it when the alert threshold is reached too; the handler gives
\* the unit the row it computes from the row alone; and an alert task that
\* ends, sent or failed, changes nothing of any unit, record or run.
C31_AlertIsFireAndForget ==
  /\ \A u \in DOMAIN before.mvp :
       /\ (/\ RunStepped(u)
           /\ before.run[u].pc = "stage"
           /\ ~ check_runtime_limit(before.run[u], now)
           /\ check_cost_limit(before.mvp[u]))
            => /\ run[u].pc = "except_limit"
               /\ run[u].exc = "CostLimitExceeded"
               /\ mvp[u] = before.mvp[u]
               /\ agent_runs[u] = before.agent_runs[u]
               /\ alert_tasks.pending =
                    before.alert_tasks.pending
                      + (IF before.mvp[u].total_cost_estimate
                              >= ALERT_COST_THRESHOLD THEN 1 ELSE 0)
       /\ (/\ RunStepped(u)
           /\ before.run[u].pc = "except_limit"
           /\ before.run[u].exc = "CostLimitExceeded")
            => /\ run[u] = NoRun
               /\ mvp[u] = except_limit_handler(before.mvp[u],
                                                "CostLimitExceeded", now).m
               /\ run_result[u].cause = "CostLimitExceeded"
  /\ AlertFinished =>
       /\ mvp = before.mvp
       /\ agent_runs = before.agent_runs
       /\ run = before.run

\* the alert of a run stopped at the ceiling has failed, after the run had
\* ended with the unit FAILED
C31_Witness ==
  /\ AlertFinished
  /\ alert_tasks.last = "failed"
  /\ \E u \in DOMAIN mvp :
       /\ mvp[u].status = "FAILED"
       /\ mvp[u].total_cost_estimate >= ALERT_COST_THRESHOLD
       /\ run_result[u].cause = "CostLimitExceeded"
       /\ run[u] = NoRun

\* the number of times in a list that are later than a cutoff
CountNewer(times, cutoff) == Len(Newer(times, cutoff))

\* the admitted requests of the key of the latest call that lay within the
\* call's window when it was made (the call's own admission left out)
AdmittedInWindow ==
  LET k  == limiter.last.key
      ts == limiter.admitted[k]
      n  == CountNewer(ts, limiter.last.at
                             - limiter.last.window * TicksPerSecond)
  IN IF limiter.last.allowed THEN n - 1 ELSE n

\* C32: a call of is_allowed of the in-memory limiter admits the request,
\* with retry_after 0, exactly when fewer than limit admitted requests of
\* the key lie within the last window seconds, and rejects it with a
\* positive retry_after otherwise.
C32_AdmitsIffUnderLimit ==
  (limiter.storage = "memory" /\ limiter.last.key # "none"
     /\ limiter.last.at = limiter.clock) =>
    /\ limiter.last.allowed <=> AdmittedInWindow < limiter.last.limit
    /\ limiter.last.allowed => limiter.last.retry_after = 0
    /\ ~ limiter.last.allowed => limiter.last.retry_after > 0

\* a run of unit u ends: run() returns or raises
RunEnds(u) == Complete(u) \/ ExceptLimit(u) \/ ExceptException(u)

\* C33: a unit whose runs end again and again (each restart's recovery
\* run) eventually is COMPLETED or FAILED: no non-terminal status keeps
\* every further run failing without a change.
C33_ResumedUnitTerminates ==
  \A u \in Units :
    ([]<><<RunEnds(u)>>_vars)
      => <>(u \in DOMAIN mvp /\ mvp[u].status \in TERMINAL_STATES)

\* C35: the persisted retry_count of a unit starts at 0, never decreases
\* and never exceeds MAX_AGENT_RETRIES, whatever runs, failures, crashes and
\* recoveries happen.
C35_RetryCountBounded ==
  \A u \in DOMAIN mvp :
    /\ mvp[u].retry_count >= 0
    /\ mvp[u].retry_count <= MAX_AGENT_RETRIES
    /\ u \in DOMAIN before.mvp
         => mvp[u].retry_count >= before.mvp[u].retry_count
    /\ u \notin DOMAIN before.mvp => mvp[u].retry_count = 0

\* a recovery run has just failed for the third time: the count went from
\* MAX_AGENT_RETRIES - 1 to MAX_AGENT_RETRIES and the unit is FAILED
C35_Witness ==
  \E u \in DOMAIN before.mvp :
    /\ HandledException(u)
    /\ run_result[u].origin = "recovery"
    /\ before.mvp[u].retry_count = MAX_AGENT_RETRIES - 1
    /\ mvp[u].retry_count = MAX_AGENT_RETRIES
    /\ mvp[u].status = "FAILED"

\* a run of unit u that was entered with the unit in a terminal state has
\* taken a step
TerminalRunStepped(u) ==
  /\ RunStepped(u)
  /\ \/ /\ before.run[u].pc = "scheduled"
        /\ before.mvp[u].status \in TERMINAL_STATES
     \/ /\ before.run[u].pc \notin {"none", "scheduled"}
        /\ before.run[u].status_before \in TERMINAL_STATES

\* C36: run() on a unit whose status is terminal leaves the row (status,
\* retry_count, totals, last_error_stage) and the attempt records as they
\* were at every step, calls no stage, ends with an exception and leaves
\* the gauge counting the runs still in flight.
C36_TerminalRunChangesNothing ==
  \A u \in DOMAIN before.mvp :
    TerminalRunStepped(u) =>
      /\ mvp[u] = before.mvp[u]
      /\ agent_runs[u] = before.agent_runs[u]
      /\ run[u].pc \notin {"await", "complete"}
      /\ run[u] = NoRun =>
           /\ run_result[u].exc # "none"
           /\ mvp_pipeline_active =
                Cardinality({ v \in DOMAIN run :
                                run[v].pc \notin {"none", "scheduled"} })

\* a run on a COMPLETED unit has ended with StateTransitionError
C36_Witness ==
  \E u \in DOMAIN before.mvp :
    /\ TerminalRunStepped(u)
    /\ run[u] = NoRun
    /\ run_result[u].status_before = "COMPLETED"
    /\ run_result[u].exc = "StateTransitionError"
    /\ mvp[u].status = "COMPLETED"

\* C37: at every moment at most one run() task exists per unit, over the
\* start endpoint and the startup scan; a unit has a task exactly when its
\* run is scheduled or in flight.
C37_OneRunPerUnit ==
  \A u \in DOMAIN run :
    /\ run[u].tasks <= 1
    /\ run[u].tasks = 1 <=> run[u].pc # "none"

\* the recovery run of a unit that the start endpoint had created, and
\* whose first run died with the process, is in a stage; it is the unit's
\* only task
C37_Witness ==
  \E u \in DOMAIN mvp :
    /\ up
    /\ run[u].origin = "recovery"
    /\ run[u].pc = "await"
    /\ run[u].tasks = 1
    /\ Len(agent_runs[u]) >= 2

\* every kickoff of the call ended in a failed build or an exception
EveryAttemptFailed ==
  /\ build.kickoffs # << >>
  /\ \A i \in 1..Len(build.kickoffs) :
       build.kickoffs[i] \notin {"ok", "exit_code_zero"}

\* C38: the building stage kicks the crew off at most MAX_AGENT_RETRIES
\* times, and a call in which every attempt failed does not end with a
\* successful stage result.
C38_ExhaustedBuildReportsFailure ==
  /\ Len(build.kickoffs) <= MAX_AGENT_RETRIES
  /\ (build.pc \in {"returned", "success"} => ~ EveryAttemptFailed)

\* pipeline p is the only one of the process that has made completions
AloneInProcess(p) ==
  \A q \in Pipelines \ {p} : crew[q].own_tokens = 0 /\ crew[q].own_cost = 0

\* C34: the usage a successful stage result carries is that of the stage
\* alone, and the unit's totals are the sums of the usage its successful
\* stages incurred, each stage counted once (here for a pipeline that is
\* alone in its process).
C34_StageUsageCountedOnce ==
  \A p \in Pipelines :
    (AloneInProcess(p) /\ crew[p].pc = "idle" /\ crew[p].result.success)
      => /\ crew[p].result.token_usage = crew[p].stage_tokens
         /\ crew[p].result.cost_estimate = Round4(crew[p].stage_cost)
         /\ crew[p].total_token_usage = crew[p].incurred_tokens
         /\ crew[p].total_cost_estimate = crew[p].incurred_cost

\* C39: the Redis limiter without a client still enforces the limit: a
\* request of a key of which limit admitted requests already lie within the
\* window is rejected.
C39_FallbackEnforcesLimit ==
  (limiter.storage = "redis" /\ limiter.last.key # "none"
     /\ limiter.last.at = limiter.clock
     /\ AdmittedInWindow >= limiter.last.limit) =>
    ~ limiter.last.allowed

====
